---- MODULE Spec2Model ----
(***************************************************************************)
(* LogBuilder: the ingestion gateway, the Redis-stream consumer group, the *)
(* API-key validator with its cache, and the query compiler.               *)
(*                                                                         *)
(* Strings whose letter case or characters matter (levels, messages) are   *)
(* sequences of one-character strings, so that strings.ToUpper and ILIKE   *)
(* are computed character by character.                                    *)
(***************************************************************************)
EXTENDS Integers, Sequences, FiniteSets, TLC

(* ------------------------------ bounds -------------------------------- *)
MaxStream == 2
MaxBatch == 2
MaxFail == 1
MaxReq == 3

Users == {1, 2}
NoUser == 0
Consumers == {1, 2}

(* -------------------------------- time -------------------------------- *)
\* Instants are minutes on one axis.  NoTime is the nil *time.Time; Now is
\* what time.Now() returns.
NoTime == 0
Now == 3000
Minute == 1
Hour == 60
Day == 1440

(* ------------------------------ strings ------------------------------- *)
Lower == <<"a","b","c","d","e","f","g","h","i","j","k","l","m",
           "n","o","p","q","r","s","t","u","v","w","x","y","z">>

Upper == <<"A","B","C","D","E","F","G","H","I","J","K","L","M",
           "N","O","P","Q","R","S","T","U","V","W","X","Y","Z">>

UpperTable ==
  [ch \in {Lower[i] : i \in DOMAIN Lower} |->
     Upper[CHOOSE i \in DOMAIN Lower : Lower[i] = ch]]

LowerTable ==
  [ch \in {Upper[i] : i \in DOMAIN Upper} |->
     Lower[CHOOSE i \in DOMAIN Upper : Upper[i] = ch]]

UpperChar(ch) == IF ch \in DOMAIN UpperTable THEN UpperTable[ch] ELSE ch

ToUpper(s) == [i \in DOMAIN s |-> UpperChar(s[i])]

LowerChar(ch) == IF ch \in DOMAIN LowerTable THEN LowerTable[ch] ELSE ch

ToLower(s) == [i \in DOMAIN s |-> LowerChar(s[i])]

DEBUG == <<"D","E","B","U","G">>
INFO == <<"I","N","F","O">>
WARN == <<"W","A","R","N">>
ERROR == <<"E","R","R","O","R">>
FATAL == <<"F","A","T","A","L">>

validLevels == {DEBUG, INFO, WARN, ERROR, FATAL}

(* --------------------------- ingest requests -------------------------- *)
\* JSON bodies a client can post for one item.  user_id is a key the client
\* may add to the body; IngestRequest has no such field.
\* A map[string]string: the nil map, or a map with the given entries.
NilFields == [nil |-> TRUE, entries |-> {}]

FieldsOf(entries) == [nil |-> FALSE, entries |-> entries]

Body(src, lvl, msg, uid) ==
  [source |-> src, level |-> lvl, message |-> msg, user_id |-> uid,
   service |-> <<>>, timestamp |-> NoTime, fields |-> NilFields]

\* The body b with the optional keys service, timestamp and fields set.
BodyWith(b, svc, ts, flds) ==
  [b EXCEPT !.service = svc, !.timestamp = ts, !.fields = flds]

ValidBodies ==
  { Body(<<"a">>, <<"e","r","r","o","r">>, <<"m">>, NoUser),
    Body(<<"a">>, <<"I","n","f","o">>, <<"m">>, 1),
    Body(<<"a">>, <<"e","r","r","o","r">>, <<"m">>, 2) }

InvalidBodies ==
  { Body(<<>>, <<"e","r","r","o","r">>, <<"m">>, NoUser),
    Body(<<"a">>, <<>>, <<"m">>, NoUser),
    Body(<<"a">>, <<"e","r","r","o","r">>, <<>>, NoUser),
    Body(<<"a">>, <<"t","r","a","c","e">>, <<"m">>, NoUser) }

IngestBodies == ValidBodies \cup InvalidBodies

ShouldBindJSON(body) ==
  [Source |-> body.source, Level |-> body.level, Message |-> body.message,
   Service |-> body.service, Timestamp |-> body.timestamp,
   Fields |-> body.fields]

IngestRequest_Validate_CaseSensitive(req) ==
  IF req.Source = <<>> THEN "source is required"
  ELSE IF req.Level = <<>> THEN "level is required"
  ELSE IF req.Message = <<>> THEN "message is required"
  ELSE IF req.Level \notin validLevels THEN "invalid log level"
  ELSE "nil"

IngestRequest_Validate(req) ==
  IF req.Source = <<>> THEN "source is required"
  ELSE IF req.Level = <<>> THEN "level is required"
  ELSE IF req.Message = <<>> THEN "message is required"
  ELSE IF ToUpper(req.Level) \notin validLevels THEN "invalid log level"
  ELSE "nil"

ToLogEntry_KeepCase(req) ==
  [UserID |-> NoUser, Source |-> req.Source, Level |-> req.Level,
   Message |-> req.Message, Service |-> req.Service,
   Timestamp |-> IF req.Timestamp # NoTime THEN req.Timestamp ELSE Now,
   Fields |-> req.Fields]

ToLogEntry(req) ==
  [UserID |-> NoUser, Source |-> req.Source, Level |-> ToUpper(req.Level),
   Message |-> req.Message, Service |-> req.Service,
   Timestamp |-> IF req.Timestamp # NoTime THEN req.Timestamp ELSE Now,
   Fields |-> req.Fields]

VARIABLES
  stream,        \* logs:incoming, the messages in append order
  groupCreated,  \* the consumer group exists
  lastDelivered, \* the group's last-delivered id (an index into stream)
  pel,           \* the group's pending entries: message id -> consumer
  acked,         \* ids acknowledged with XACK
  cpc,           \* each consumer's position in ConsumeLogStream
  cbatch,        \* the messages of the batch a consumer still has to process
  cancelled,     \* each consumer's context is cancelled
  dbLogs,        \* rows of the logs table written by the consumers
  handlerCalls,  \* how often the handler was called for a message id
  handlerFailed, \* ids for which the handler returned an error
  failBudget,    \* failures of PostgreSQL or Redis still to come (they are transient)
  http,          \* the last gateway request and its response
  keyActive,     \* api_keys.is_active of each key
  userActive,    \* users.is_active of each tenant
  cache,         \* Redis apikey:<key> -> user id (NoUser: no entry)
  reqs,          \* the authenticated requests and where each of them is
  goroutines,    \* goroutines started by the handlers that have not run yet
  dbLookups,     \* calls of AuthStorage.ValidateAPIKey per key
  deleteResponded, \* keys for which DeleteAPIKey has sent its 200
  ttlExpired,    \* a cache entry has expired
  overlap,       \* a validation started while another one was in progress
  query          \* the query request being answered and its response

queueVars == <<stream, groupCreated, lastDelivered, pel, acked, cpc, cbatch, cancelled,
               dbLogs, handlerCalls, handlerFailed, failBudget, http>>

authVars == <<keyActive, userActive, cache, reqs, goroutines, dbLookups,
              deleteResponded, ttlExpired, overlap>>

vars == <<queueVars, authVars, query>>


(* ------------------------------ the queue ----------------------------- *)
\* json.Marshal of a LogEntry: one key per field; fields has omitempty and is
\* left out for a nil map and for a map without entries.
Marshal(entry) ==
  LET keys == [user_id |-> entry.UserID, source |-> entry.Source,
               level |-> entry.Level, message |-> entry.Message,
               service |-> entry.Service, timestamp |-> entry.Timestamp]
  IN  IF entry.Fields.entries = {} THEN keys
      ELSE keys @@ ("fields" :> entry.Fields.entries)

IsLogJSON(payload) == "user_id" \in DOMAIN payload

Unmarshal_ZeroTenant(payload) ==
  [UserID |-> NoUser, Source |-> payload.source, Level |-> payload.level,
   Message |-> payload.message, Service |-> payload.service,
   Timestamp |-> payload.timestamp,
   Fields |-> IF "fields" \in DOMAIN payload THEN FieldsOf(payload.fields)
              ELSE NilFields]

\* json.Unmarshal into a zero LogEntry: a key that is absent leaves the zero
\* value of its field, the nil map for fields.
Unmarshal(payload) ==
  [UserID |-> payload.user_id, Source |-> payload.source, Level |-> payload.level,
   Message |-> payload.message, Service |-> payload.service,
   Timestamp |-> payload.timestamp,
   Fields |-> IF "fields" \in DOMAIN payload THEN FieldsOf(payload.fields)
              ELSE NilFields]

\* The stream entry XADD writes: one field, log, holding the JSON text.
Envelope(entry) == [log |-> Marshal(entry)]

\* Entries processMessage treats as malformed: no string field log, or a
\* payload that is not the JSON of a LogEntry.
MalformedEnvelopes == { [other |-> "x"], [log |-> [garbage |-> "x"]] }

WellFormed(msg) == "log" \in DOMAIN msg /\ IsLogJSON(msg.log)

(* ----------------------------- the gateway ---------------------------- *)
StampedEntry_FromBody(userID, body) ==
  [ToLogEntry(ShouldBindJSON(body)) EXCEPT
     !.UserID = IF body.user_id # NoUser THEN body.user_id ELSE userID]

\* after req.ToLogEntry():  logEntry.UserID = userID.(int)
StampedEntry(userID, body) ==
  [ToLogEntry(ShouldBindJSON(body)) EXCEPT !.UserID = userID]

Idle == [op |-> "none"]

AppliedBeforeFailure_Retried(envelopes, k) == SubSeq(envelopes, 1, k) \o envelopes

\* What a publish that returned an error has appended: the commands the
\* server applied before the failure, k of them.  The handler answers 500 and
\* returns; it does not publish again.
AppliedBeforeFailure(envelopes, k) == SubSeq(envelopes, 1, k)

\* The model keeps the stream short: a request is taken while there is room.
Room(n) == Len(stream) + n <= MaxStream

Response(op, userID, items, status, errors, queued, appended) ==
  [op |-> op, user |-> userID, items |-> items, status |-> status,
   errors |-> errors, queued |-> queued, appended |-> appended]

GatewayUnchanged ==
  UNCHANGED <<groupCreated, lastDelivered, pel, acked, cpc, cbatch, cancelled,
              dbLogs, handlerCalls, handlerFailed, failBudget, authVars, query>>

\* PublishLog: one XADD.  The reply can be lost after the server has applied
\* the command (the context has a 2 s timeout), so an error is reported with
\* the entry appended or not.
IngestLog(userID, body) ==
  LET req == ShouldBindJSON(body)
      err == IngestRequest_Validate(req)
      entry == StampedEntry(userID, body)
  IN  /\ \/ /\ userID = NoUser
            /\ http' = Response("ingest", userID, <<body>>, 401, <<>>, 0, 0)
            /\ stream' = stream
         \/ /\ userID # NoUser
            /\ err # "nil"
            /\ http' = Response("ingest", userID, <<body>>, 400, <<err>>, 0, 0)
            /\ stream' = stream
         \/ /\ userID # NoUser
            /\ err = "nil"
            /\ \E outcome \in {"ok", "err", "reply_lost"} :
                 /\ stream' = IF outcome = "ok" THEN Append(stream, Envelope(entry))
                                ELSE stream \o AppliedBeforeFailure(
                                       <<Envelope(entry)>>,
                                       IF outcome = "err" THEN 0 ELSE 1)
                 /\ http' = Response("ingest", userID, <<body>>,
                                     IF outcome = "ok" THEN 202 ELSE 500, <<>>, 0,
                                     IF outcome = "err" THEN 0 ELSE 1)
      /\ GatewayUnchanged

\* The loop of IngestBatch over req.Logs: the entries of the valid items and
\* the error strings of the invalid ones, both in batch order.
\* The positions i, i+1, ... of items, in batch order.
Positions(items, i) == [j \in 1..(Len(items) - i + 1) |-> j + i - 1]

BatchEntries(userID, items, i) ==
  LET Passes(j) == IngestRequest_Validate(ShouldBindJSON(items[j])) = "nil"
      valid == SelectSeq(Positions(items, i), Passes)
  IN  [k \in 1..Len(valid) |-> StampedEntry(userID, items[valid[k]])]

BatchErrors(items, i) ==
  LET Fails(j) == IngestRequest_Validate(ShouldBindJSON(items[j])) # "nil"
      invalid == SelectSeq(Positions(items, i), Fails)
  IN  [k \in 1..Len(invalid) |->
        [index |-> invalid[k] - 1, prefix |-> "Log",
         reason |-> IngestRequest_Validate(ShouldBindJSON(items[invalid[k]]))]]

BatchToPublish_Partial(logEntries, validationErrors) == logEntries

\* What IngestBatch hands to PublishLogs, given the outcome of the loop.
BatchToPublish(logEntries, validationErrors) ==
  IF Len(validationErrors) > 0 THEN <<>> ELSE logEntries

MaxBatchSize == 1000

Envelopes_Reversed(entries) ==
  [i \in DOMAIN entries |-> Envelope(entries[Len(entries) + 1 - i])]

\* The XADDs PublishLogs queues on its pipeline, in the order of logs.
Envelopes(entries) == [i \in DOMAIN entries |-> Envelope(entries[i])]

BatchSizeError_Limit(items) ==
  IF Len(items) = 0 THEN "No logs provided in batch"
  ELSE IF Len(items) >= MaxBatchSize
    THEN "Batch size too large (max 1000 logs)"
  ELSE "nil"

\* The two size checks IngestBatch makes before its loop over req.Logs.
BatchSizeError(items) ==
  IF Len(items) = 0 THEN "No logs provided in batch"
  ELSE IF Len(items) > MaxBatchSize
    THEN "Batch size too large (max 1000 logs)"
  ELSE "nil"

\* PublishLogs: a pipeline of XADDs, sent by one Exec.  A pipeline is not a
\* transaction: when Exec fails, any prefix of it may have been applied.
IngestBatch(userID, items) ==
  LET logEntries == BatchEntries(userID, items, 1)
      validationErrors == BatchErrors(items, 1)
      toPublish == BatchToPublish(logEntries, validationErrors)
  IN  /\ \/ /\ userID = NoUser
            /\ http' = Response("batch", userID, items, 401, <<>>, 0, 0)
            /\ stream' = stream
         \/ /\ userID # NoUser
            /\ BatchSizeError(items) # "nil"
            /\ http' = Response("batch", userID, items, 400, <<>>, 0, 0)
            /\ stream' = stream
         \/ /\ userID # NoUser
            /\ BatchSizeError(items) = "nil"
            /\ Len(validationErrors) > 0
            /\ http' = Response("batch", userID, items, 400, validationErrors, 0,
                                Len(toPublish))
            /\ stream' = stream \o Envelopes(toPublish)
         \/ /\ userID # NoUser
            /\ BatchSizeError(items) = "nil"
            /\ Len(validationErrors) = 0
            /\ \/ /\ stream' = stream \o Envelopes(toPublish)
                  /\ http' = Response("batch", userID, items, 202, <<>>,
                                      Len(logEntries), Len(toPublish))
               \/ \E k \in 0..Len(toPublish) :
                    /\ stream' = stream \o AppliedBeforeFailure(Envelopes(toPublish), k)
                    /\ http' = Response("batch", userID, items, 500, <<>>, 0, k)
      /\ GatewayUnchanged

\* The items batches are built from: two valid ones, each naming a tenant in
\* its body, and two invalid ones.
BatchBodies ==
  { Body(<<"a">>, <<"I","n","f","o">>, <<"m">>, 1),
    Body(<<"a">>, <<"e","r","r","o","r">>, <<"m">>, 2),
    Body(<<>>, <<"e","r","r","o","r">>, <<"m">>, NoUser),
    Body(<<"a">>, <<"t","r","a","c","e">>, <<"m">>, NoUser) }

Batches == UNION { [1..n -> BatchBodies] : n \in 0..MaxBatch }

(* ----------------------------- the consumer --------------------------- *)
ReadCount == 10

Min(a, b) == IF a < b THEN a ELSE b

ConsumerUnchanged == UNCHANGED <<stream, http, authVars, query>>

\* An entry added to logs:incoming by a writer other than PublishLog, which
\* processMessage cannot decode.
AppendMalformed(msg) ==
  /\ Len(stream) < MaxStream
  /\ stream' = Append(stream, msg)
  /\ UNCHANGED <<groupCreated, lastDelivered, pel, acked, cpc, cbatch, cancelled,
                 dbLogs, handlerCalls, handlerFailed, failBudget, http, authVars, query>>

BUSYGROUP == "BUSYGROUP Consumer Group name already exists"

\* The errors XGroupCreateMkStream(ctx, stream, group, "0") can come back
\* with: the context's on a cancelled context, else nil for a new group,
\* BUSYGROUP for one that exists, or a connection error while failures of
\* Redis are still to come.
CreateOutcomes(c) ==
  IF cancelled[c] THEN {"context canceled"}
  ELSE {IF groupCreated THEN BUSYGROUP ELSE "nil"}
       \cup (IF failBudget > 0 THEN {"connection refused"} ELSE {})

ReturnsCreateError_Any(err) == err # "nil"

\* if err != nil && err.Error() != "BUSYGROUP Consumer Group name already exists"
ReturnsCreateError(err) == err # "nil" /\ err # BUSYGROUP

\* The head of ConsumeLogStream: the group is created at id 0 with the first
\* call that succeeds; an error other than BUSYGROUP is returned.
Start(c) ==
  /\ cpc[c] = "init"
  /\ \E err \in CreateOutcomes(c) :
       /\ groupCreated' = (groupCreated \/ err = "nil")
       /\ lastDelivered' = IF err = "nil" THEN 0 ELSE lastDelivered
       /\ failBudget' = IF err = "connection refused" THEN failBudget - 1 ELSE failBudget
       /\ cpc' = [cpc EXCEPT ![c] = IF ReturnsCreateError(err) THEN "returned_err"
                                    ELSE "loop"]
  /\ UNCHANGED <<pel, acked, cbatch, cancelled, dbLogs, handlerCalls, handlerFailed>>
  /\ ConsumerUnchanged

NewIds_FromStart == 1 .. Min(Len(stream), lastDelivered + ReadCount)

\* The ids XREADGROUP ... ">" delivers: entries never delivered to the group,
\* at most ReadCount of them, in stream order.
NewIds == (lastDelivered + 1) .. Min(Len(stream), lastDelivered + ReadCount)

AfterFailedRead_Return == "returned_err"

\* err != redis.Nil: log, time.Sleep(1 * time.Second), continue.
AfterFailedRead == "sleep"

CtxDone_Never(c) == FALSE

\* case <-ctx.Done(): the select of the loop finds the context cancelled.
CtxDone(c) == cancelled[c]

IdSeq(first, last) == [i \in 1..(last - first + 1) |-> first + i - 1]

\* One iteration of the for/select loop: return on a cancelled context, else
\* XReadGroup.  A read that finds nothing new blocks for a second and comes
\* back with redis.Nil; a read that fails (Redis does not answer) delivers
\* nothing and is followed by a sleep of a second.
Loop(c) ==
  /\ cpc[c] = "loop"
  /\ \/ /\ CtxDone(c)
        /\ cpc' = [cpc EXCEPT ![c] = "returned_ctx"]
        /\ UNCHANGED <<lastDelivered, pel, cbatch, failBudget>>
     \/ /\ ~CtxDone(c)
        /\ NewIds = {}
        /\ cpc' = [cpc EXCEPT ![c] = "blocked"]
        /\ UNCHANGED <<lastDelivered, pel, cbatch, failBudget>>
     \/ /\ ~CtxDone(c)
        /\ failBudget > 0
        /\ failBudget' = failBudget - 1
        /\ cpc' = [cpc EXCEPT ![c] = AfterFailedRead]
        /\ UNCHANGED <<lastDelivered, pel, cbatch>>
     \/ /\ ~CtxDone(c)
        /\ NewIds # {}
        /\ lastDelivered' = Min(Len(stream), lastDelivered + ReadCount)
        /\ pel' = pel \cup {[id |-> m, consumer |-> c] : m \in NewIds}
        /\ cbatch' = [cbatch EXCEPT ![c] = IdSeq(lastDelivered + 1, lastDelivered')]
        /\ cpc' = [cpc EXCEPT ![c] = "proc"]
        /\ UNCHANGED failBudget
  /\ UNCHANGED <<groupCreated, acked, cancelled, dbLogs, handlerCalls, handlerFailed>>
  /\ ConsumerUnchanged

\* The blocking read or the sleep is over: continue.
Continue(c) ==
  /\ cpc[c] \in {"blocked", "sleep"}
  /\ cpc' = [cpc EXCEPT ![c] = "loop"]
  /\ UNCHANGED <<stream, groupCreated, lastDelivered, pel, acked, cbatch, cancelled,
                 dbLogs, handlerCalls, handlerFailed, failBudget, http, authVars, query>>

\* XAck removes the id from the pending list.
XAck(m) == [acked |-> acked \cup {m}, pel |-> {e \in pel : e.id # m}]

AckAfterHandler_Always(handlerErr) == TRUE

AckAfterHandler_OnError(handlerErr) == handlerErr # "nil"

\* Whether processMessage acknowledges after the handler has returned err.
AckAfterHandler(handlerErr) == handlerErr = "nil"

\* processLog -> InsertLog: the row written for a log entry.
InsertLog(m, log) == Append(dbLogs, [mid |-> m, log |-> log])

\* The outcomes of an XACK call: it fails on a cancelled context (the client
\* checks ctx before it sends) and may fail while failures of Redis are still
\* to come.
AckOutcomes(c) ==
  IF cancelled[c] THEN {FALSE}
  ELSE IF failBudget > 0 THEN {TRUE, FALSE}
  ELSE {TRUE}

\* processMessage for the next message of the delivered batch.
Process(c) ==
  /\ cpc[c] = "proc"
  /\ cbatch[c] # <<>>
  /\ LET m == Head(cbatch[c])
         msg == stream[m]
         rest == Tail(cbatch[c])
     IN  /\ cbatch' = [cbatch EXCEPT ![c] = rest]
         /\ cpc' = [cpc EXCEPT ![c] = IF rest = <<>> THEN "loop" ELSE "proc"]
         /\ \/ /\ ~WellFormed(msg)
               /\ \E ok \in AckOutcomes(c) :
                    /\ acked' = IF ok THEN XAck(m).acked ELSE acked
                    /\ pel' = IF ok THEN XAck(m).pel ELSE pel
               /\ UNCHANGED <<dbLogs, handlerCalls, handlerFailed, failBudget>>
            \/ /\ WellFormed(msg)
               /\ handlerCalls' = [handlerCalls EXCEPT ![m] = @ + 1]
               /\ \/ /\ failBudget > 0
                     /\ failBudget' = failBudget - 1
                     /\ handlerFailed' = handlerFailed \cup {m}
                     /\ \E ok \in AckOutcomes(c) :
                          LET do == ok /\ AckAfterHandler("failed to store log in database")
                          IN  /\ acked' = IF do THEN XAck(m).acked ELSE acked
                              /\ pel' = IF do THEN XAck(m).pel ELSE pel
                     /\ UNCHANGED dbLogs
                  \/ /\ dbLogs' = InsertLog(m, Unmarshal(msg.log))
                     /\ \E ok \in AckOutcomes(c) :
                          LET do == ok /\ AckAfterHandler("nil")
                          IN  /\ acked' = IF do THEN XAck(m).acked ELSE acked
                              /\ pel' = IF do THEN XAck(m).pel ELSE pel
                     /\ UNCHANGED <<handlerFailed, failBudget>>
  /\ UNCHANGED <<groupCreated, lastDelivered, cancelled>>
  /\ ConsumerUnchanged

\* SIGINT/SIGTERM: main cancels the consumer's context.
Cancel(c) ==
  /\ ~cancelled[c]
  /\ cpc[c] \in {"init", "loop", "blocked", "sleep", "proc"}
  /\ cancelled' = [cancelled EXCEPT ![c] = TRUE]
  /\ UNCHANGED <<stream, groupCreated, lastDelivered, pel, acked, cpc, cbatch, dbLogs,
                 handlerCalls, handlerFailed, failBudget, http, authVars, query>>

\* main sleeps 2 s after cancel() and returns: the process ends whatever the
\* consumer goroutine is doing.
Exit(c) ==
  /\ cancelled[c]
  /\ cpc[c] \in {"init", "loop", "blocked", "sleep", "proc"}
  /\ cpc' = [cpc EXCEPT ![c] = "exited"]
  /\ cbatch' = [cbatch EXCEPT ![c] = <<>>]
  /\ UNCHANGED <<stream, groupCreated, lastDelivered, pel, acked, cancelled, dbLogs,
                 handlerCalls, handlerFailed, failBudget, http, authVars, query>>

(* ------------------------ the credential validator ------------------- *)
Keys == {"k1", "k2"}

\* api_keys.user_id: the tenant a key is bound to.
keyOwner == [k \in Keys |-> IF k = "k1" THEN 1 ELSE 2]

ReqIds == 1..MaxReq

NoToken == [kind |-> "none", key |-> "none", user |-> NoUser, good |-> FALSE]

KeyToken(k) == [kind |-> "key", key |-> k, user |-> NoUser, good |-> FALSE]

JWT(u, good) == [kind |-> "jwt", key |-> "none", user |-> u, good |-> good]

\* The Authorization headers of the requests: none, one that is not
\* "Bearer <x>", and Bearer with an API key (known or not) or with a token
\* (good: signed with the secret and not expired).
Headers ==
  { [form |-> "missing", token |-> NoToken],
    [form |-> "malformed", token |-> NoToken] }
  \cup { [form |-> "bearer", token |-> KeyToken(k)] : k \in Keys \cup {"unknown"} }
  \cup { [form |-> "bearer", token |-> JWT(u, g)] : u \in {1}, g \in BOOLEAN }

Middlewares == {"jwt", "apikey", "either"}

\* JWTService.ValidateToken: the claims of a token with a valid signature
\* that has not expired, an error for anything else.
ValidateToken(tok) ==
  IF tok.kind = "jwt" /\ tok.good
    THEN [err |-> "nil", UserID |-> tok.user]
    ELSE [err |-> "invalid token", UserID |-> NoUser]

GetCachedAPIKey_OneEntry(tok) ==
  IF cache["k1"] # NoUser
    THEN [err |-> "nil", userID |-> cache["k1"]]
    ELSE [err |-> "API key not in cache", userID |-> NoUser]

\* GetCachedAPIKey: the cached user id, or an error when there is no entry.
GetCachedAPIKey(tok) ==
  IF tok.key \in Keys /\ cache[tok.key] # NoUser
    THEN [err |-> "nil", userID |-> cache[tok.key]]
    ELSE [err |-> "API key not in cache", userID |-> NoUser]

\* GetCachedAPIKey when the GET fails for another reason than redis.Nil
\* (Redis down, the 2 s timeout): the error wrapped, the user id 0.
GetCachedAPIKeyFailed ==
  [err |-> "failed to get cached API key: connection refused", userID |-> NoUser]

\* What the GET of a lookup can come to: an answer of Redis or, while Redis
\* has failures to come, none.
GetOutcomes == {"answered"} \cup (IF failBudget > 0 THEN {"failed"} ELSE {})

ValidateAPIKey_AnyOwner(tok) ==
  IF tok.key \in Keys /\ keyActive[tok.key]
    THEN [err |-> "nil", ID |-> keyOwner[tok.key]]
    ELSE [err |-> "invalid API key", ID |-> NoUser]

\* AuthStorage.ValidateAPIKey: the join of api_keys and users on the key,
\* with k.is_active and u.is_active.
ValidateAPIKey(tok) ==
  IF tok.key \in Keys /\ keyActive[tok.key] /\ userActive[keyOwner[tok.key]]
    THEN [err |-> "nil", ID |-> keyOwner[tok.key]]
    ELSE [err |-> "invalid API key", ID |-> NoUser]

\* The error strings of the three middlewares.
MissingHeaderError(mw) ==
  IF mw = "apikey" THEN "API key required" ELSE "Authorization header required"

MalformedHeaderError(mw) ==
  IF mw = "apikey" THEN "Invalid authorization format. Use: Bearer <api_key>"
  ELSE "Invalid authorization format"

InvalidCredentialError(mw) ==
  CASE mw = "jwt" -> "Invalid or expired token"
    [] mw = "apikey" -> "Invalid API key"
    [] mw = "either" -> "Invalid or expired token/API key"

Req(kind, mw, header, user, key, pc, status, error, user_id, afterDelete, cachedAtResponse) ==
  [kind |-> kind, mw |-> mw, header |-> header, user |-> user, key |-> key,
   pc |-> pc, status |-> status, error |-> error, user_id |-> user_id,
   afterDelete |-> afterDelete, cachedAtResponse |-> cachedAtResponse,
   steps |-> <<>>]

FreeReq ==
  Req("free", "none", [form |-> "missing", token |-> NoToken], NoUser, "none",
      "done", 0, "", NoUser, FALSE, NoUser)

\* The request is passed on to its handler (c.Next()) with user_id set.
Admit(rq, userID) == [rq EXCEPT !.pc = "done", !.status = 200, !.user_id = userID]

\* c.JSON(http.StatusUnauthorized, {"error": msg}); c.Abort()
Reject(rq, msg) == [rq EXCEPT !.pc = "done", !.status = 401, !.error = msg]

NextFree(r) ==
  /\ reqs[r].kind = "free"
  /\ \A q \in ReqIds : q < r => reqs[q].kind # "free"

InProgress(q) == reqs[q].kind = "validate" /\ reqs[q].pc = "db"

AuthUnchanged == UNCHANGED <<queueVars, query>>

\* The groups of setupRouter and the middleware each one uses.
Routes ==
  { "/api-keys", "/stream/status", "/logs/recent", "/logs/query",
    "/logs/ingest", "/logs/batch" }

RouteMiddleware(route) ==
  CASE route \in {"/api-keys", "/stream/status"} -> "jwt"
    [] route \in {"/logs/recent", "/logs/query"} -> "either"
    [] route \in {"/logs/ingest", "/logs/batch"} -> "apikey"

TriesToken_JWTOnly(mw) == mw = "jwt"

\* The middlewares that call jwtService.ValidateToken, which they do before
\* anything else once the header is split.
TriesToken(mw) == mw \in {"jwt", "either"}

TriesKey_Always(mw) == TRUE

\* The middlewares that go on to GetCachedAPIKey and ValidateAPIKey.
TriesKey(mw) == mw \in {"apikey", "either"}

\* The calls a request has made so far: "token" for ValidateToken, "cache"
\* for GetCachedAPIKey, "db" for ValidateAPIKey.
Step(rq, calls) == [rq EXCEPT !.steps = @ \o calls]

FallsThrough_OnMiss(err) == err = "API key not in cache"

\* The test on the error of GetCachedAPIKey: nil is the hit, anything else
\* goes on to ValidateAPIKey.
FallsThrough(err) == err # "nil"

\* The requests that get as far as GetCachedAPIKey.
ReachesCache(mw, header) ==
  /\ header.form = "bearer"
  /\ TriesKey(mw)
  /\ ~(TriesToken(mw) /\ ValidateToken(header.token).err = "nil")

\* A middleware up to its cache lookup: the header checks, the token check
\* (jwt, either) and GetCachedAPIKey (apikey, either).
Authenticate(r, mw, header) ==
  \E get \in GetOutcomes :
    LET tok == header.token
        rq == Req("validate", mw, header, NoUser, "none", "start", 0, "", NoUser,
                  tok.key \in deleteResponded, NoUser)
        claims == ValidateToken(tok)
        cached == IF get = "failed" THEN GetCachedAPIKeyFailed ELSE GetCachedAPIKey(tok)
        tokenStep == IF TriesToken(mw) THEN <<"token">> ELSE <<>>
    IN  /\ NextFree(r)
        /\ get = "failed" => ReachesCache(mw, header)
        /\ reqs' = [reqs EXCEPT ![r] =
             IF header.form = "missing" THEN Reject(rq, MissingHeaderError(mw))
             ELSE IF header.form = "malformed" THEN Reject(rq, MalformedHeaderError(mw))
             ELSE IF TriesToken(mw) /\ claims.err = "nil"
               THEN Admit(Step(rq, <<"token">>), claims.UserID)
             ELSE IF ~TriesKey(mw)
               THEN Reject(Step(rq, <<"token">>), InvalidCredentialError(mw))
             ELSE IF cached.err = "nil"
               THEN Admit(Step(rq, tokenStep \o <<"cache">>), cached.userID)
             ELSE IF FallsThrough(cached.err)
               THEN [Step(rq, tokenStep \o <<"cache">>) EXCEPT !.pc = "db"]
             ELSE Reject(Step(rq, tokenStep \o <<"cache">>), InvalidCredentialError(mw))]
        /\ failBudget' = IF get = "failed" THEN failBudget - 1 ELSE failBudget
        /\ overlap' = (overlap \/ \E q \in ReqIds : InProgress(q))
        /\ UNCHANGED <<keyActive, userActive, cache, goroutines, dbLookups,
                       deleteResponded, ttlExpired>>
        /\ UNCHANGED <<stream, groupCreated, lastDelivered, pel, acked, cpc, cbatch,
                       cancelled, dbLogs, handlerCalls, handlerFailed, http, query>>

\* After a cache miss: ValidateAPIKey, and on success the goroutine that will
\* call CacheAPIKey(apiKey, user.ID, 15 min).
LookupKey(r) ==
  LET rq == reqs[r]
      tok == rq.header.token
      user == ValidateAPIKey(tok)
  IN  /\ rq.kind = "validate"
      /\ rq.pc = "db"
      /\ dbLookups' = IF tok.key \in Keys
                        THEN [dbLookups EXCEPT ![tok.key] = @ + 1]
                        ELSE dbLookups
      /\ IF user.err # "nil"
           THEN /\ reqs' = [reqs EXCEPT ![r] =
                     Reject(Step(rq, <<"db">>), InvalidCredentialError(rq.mw))]
                /\ UNCHANGED goroutines
           ELSE /\ reqs' = [reqs EXCEPT ![r] = Admit(Step(rq, <<"db">>), user.ID)]
                /\ goroutines' = goroutines \cup
                     {[op |-> "cache", key |-> tok.key, user |-> user.ID, req |-> r]}
      /\ UNCHANGED <<keyActive, userActive, cache, deleteResponded, ttlExpired, overlap>>
      /\ AuthUnchanged

\* The goroutine of the middleware runs: SET apikey:<key> <user id>.  An
\* error of the SET is logged and nothing else.
CacheAPIKey(g) ==
  /\ g \in goroutines
  /\ g.op = "cache"
  /\ goroutines' = goroutines \ {g}
  /\ \/ cache' = [cache EXCEPT ![g.key] = g.user]
     \/ UNCHANGED cache
  /\ UNCHANGED <<keyActive, userActive, reqs, dbLookups, deleteResponded, ttlExpired,
                 overlap>>
  /\ AuthUnchanged

\* DeleteAPIKey up to DeactivateAPIKey: GetUserAPIKeys(userID), the search
\* for the key id among the caller's keys and, when it is found, the start of
\* the goroutine that will call InvalidateCachedAPIKey.
DeleteAPIKey(r, userID, keyID) ==
  LET rq == Req("delete", "jwt", [form |-> "bearer", token |-> JWT(userID, TRUE)],
                userID, keyID, "deactivate", 0, "", userID, FALSE, NoUser)
      owned == keyOwner[keyID] = userID
  IN  /\ NextFree(r)
      /\ reqs' = [reqs EXCEPT ![r] = rq]
      /\ IF owned
           THEN goroutines' = goroutines \cup
                  {[op |-> "invalidate", key |-> keyID, user |-> NoUser, req |-> r]}
           ELSE UNCHANGED goroutines
      /\ UNCHANGED <<keyActive, userActive, cache, dbLookups, deleteResponded,
                     ttlExpired, overlap>>
      /\ AuthUnchanged

\* The goroutine of DeleteAPIKey runs: DEL apikey:<key>.
InvalidateCachedAPIKey(g) ==
  /\ g \in goroutines
  /\ g.op = "invalidate"
  /\ goroutines' = goroutines \ {g}
  /\ \/ cache' = [cache EXCEPT ![g.key] = NoUser]
     \/ UNCHANGED cache
  /\ UNCHANGED <<keyActive, userActive, reqs, dbLookups, deleteResponded, ttlExpired,
                 overlap>>
  /\ AuthUnchanged

\* AuthStorage.DeactivateAPIKey: UPDATE ... WHERE id = $1 AND user_id = $2;
\* no row affected is an error, answered with 500.
DeactivateAPIKey(r) ==
  LET rq == reqs[r]
  IN  /\ rq.kind = "delete"
      /\ rq.pc = "deactivate"
      /\ IF keyOwner[rq.key] = rq.user
           THEN /\ keyActive' = [keyActive EXCEPT ![rq.key] = FALSE]
                /\ reqs' = [reqs EXCEPT ![r].pc = "respond"]
           ELSE /\ UNCHANGED keyActive
                /\ reqs' = [reqs EXCEPT ![r] =
                     [rq EXCEPT !.pc = "done", !.status = 500,
                                !.error = "Failed to delete API key"]]
      /\ UNCHANGED <<userActive, cache, goroutines, dbLookups, deleteResponded,
                     ttlExpired, overlap>>
      /\ AuthUnchanged

\* c.JSON(http.StatusOK, "API key deleted successfully")
DeleteRespond(r) ==
  LET rq == reqs[r]
  IN  /\ rq.kind = "delete"
      /\ rq.pc = "respond"
      /\ reqs' = [reqs EXCEPT ![r] =
           [rq EXCEPT !.pc = "done", !.status = 200, !.cachedAtResponse = cache[rq.key]]]
      /\ deleteResponded' = deleteResponded \cup {rq.key}
      /\ UNCHANGED <<keyActive, userActive, cache, goroutines, dbLookups, ttlExpired,
                     overlap>>
      /\ AuthUnchanged

\* An entry of the cache reaches its TTL of 15 minutes.
Expire(k) ==
  /\ cache[k] # NoUser
  /\ cache' = [cache EXCEPT ![k] = NoUser]
  /\ ttlExpired' = TRUE
  /\ UNCHANGED <<keyActive, userActive, reqs, goroutines, dbLookups, deleteResponded,
                 overlap>>
  /\ AuthUnchanged

(* -------------------------- the query compiler ------------------------ *)
timestamp == <<"t","i","m","e","s","t","a","m","p">>
level == <<"l","e","v","e","l">>
source == <<"s","o","u","r","c","e">>
service == <<"s","e","r","v","i","c","e">>
validSortFields == {timestamp, level, source, service}
ASC == <<"A","S","C">>
DESC == <<"D","E","S","C">>

\* The QueryRequest a body of {} binds to: every field at its zero value.
EmptyFilter ==
  [Level |-> <<>>, Source |-> <<>>, Service |-> <<>>, Message |-> <<>>,
   Levels |-> <<>>, Sources |-> <<>>, Services |-> <<>>,
   ExcludeLevel |-> <<>>, ExcludeLevels |-> <<>>,
   ExcludeSource |-> <<>>, ExcludeSources |-> <<>>,
   MessageContains |-> <<>>, MessageNotContains |-> <<>>,
   StartTime |-> NoTime, EndTime |-> NoTime,
   LastMinutes |-> 0, LastHours |-> 0, LastDays |-> 0,
   Limit |-> 0, Offset |-> 0, SortBy |-> <<>>, SortOrder |-> <<>>]

AllValidLevels(ls) == \A i \in DOMAIN ls : ToUpper(ls[i]) \in validLevels

UpperAll_AsTyped(ls) == ls

UpperAll(ls) == [i \in DOMAIN ls |-> ToUpper(ls[i])]

\* time.Duration is an int64 of nanoseconds: 2^63 ns is 153722867 minutes
\* and a fraction.  A product that leaves the range wraps around.
DurationHalf == 153722867

WrapDuration(d) == ((d + DurationHalf) % (2 * DurationHalf)) - DurationHalf

\* now.Add(-time.Duration(n) * unit)
Ago(n, unit) == Now + WrapDuration(-(n * unit))

WindowStart_FirstWins(q) ==
  IF q.LastMinutes > 0 THEN Ago(q.LastMinutes, Minute)
  ELSE IF q.LastHours > 0 THEN Ago(q.LastHours, Hour)
  ELSE IF q.LastDays > 0 THEN Ago(q.LastDays, Day)
  ELSE q.StartTime

\* The start time after the three time range helpers, each of which
\* overwrites q.StartTime when its field is positive.
WindowStart(q) ==
  LET afterMinutes == IF q.LastMinutes > 0 THEN Ago(q.LastMinutes, Minute)
                      ELSE q.StartTime
      afterHours == IF q.LastHours > 0 THEN Ago(q.LastHours, Hour)
                    ELSE afterMinutes
  IN  IF q.LastDays > 0 THEN Ago(q.LastDays, Day) ELSE afterHours

QueryRequest_ValidateErr_NoRange(q) ==
  IF q.Level # <<>> /\ ToUpper(q.Level) \notin validLevels THEN "invalid log level"
  ELSE IF ~AllValidLevels(q.Levels) THEN "invalid log level in levels array"
  ELSE IF q.ExcludeLevel # <<>> /\ ToUpper(q.ExcludeLevel) \notin validLevels
    THEN "invalid exclude_level"
  ELSE IF ~AllValidLevels(q.ExcludeLevels) THEN "invalid log level in exclude_levels"
  ELSE IF q.Limit > 1000 THEN "limit cannot exceed 1000"
  ELSE IF q.Offset < 0 THEN "offset cannot be negative"
  ELSE IF q.SortBy # <<>> /\ ToLower(q.SortBy) \notin validSortFields
    THEN "invalid sort_by field"
  ELSE IF q.SortOrder # <<>> /\ ToUpper(q.SortOrder) \notin {ASC, DESC}
    THEN "invalid sort_order"
  ELSE "nil"

QueryRequest_ValidateErr_NoLimit(q) ==
  IF q.Level # <<>> /\ ToUpper(q.Level) \notin validLevels THEN "invalid log level"
  ELSE IF ~AllValidLevels(q.Levels) THEN "invalid log level in levels array"
  ELSE IF q.ExcludeLevel # <<>> /\ ToUpper(q.ExcludeLevel) \notin validLevels
    THEN "invalid exclude_level"
  ELSE IF ~AllValidLevels(q.ExcludeLevels) THEN "invalid log level in exclude_levels"
  ELSE IF WindowStart(q) # NoTime /\ q.EndTime # NoTime /\ WindowStart(q) > q.EndTime
    THEN "start_time must be before end_time"
  ELSE IF q.Offset < 0 THEN "offset cannot be negative"
  ELSE IF q.SortBy # <<>> /\ ToLower(q.SortBy) \notin validSortFields
    THEN "invalid sort_by field"
  ELSE IF q.SortOrder # <<>> /\ ToUpper(q.SortOrder) \notin {ASC, DESC}
    THEN "invalid sort_order"
  ELSE "nil"

\* QueryRequest.Validate: the error it returns ("nil" for none), the checks
\* taken in the order of the code.
QueryRequest_ValidateErr(q) ==
  IF q.Level # <<>> /\ ToUpper(q.Level) \notin validLevels THEN "invalid log level"
  ELSE IF ~AllValidLevels(q.Levels) THEN "invalid log level in levels array"
  ELSE IF q.ExcludeLevel # <<>> /\ ToUpper(q.ExcludeLevel) \notin validLevels
    THEN "invalid exclude_level"
  ELSE IF ~AllValidLevels(q.ExcludeLevels) THEN "invalid log level in exclude_levels"
  ELSE IF WindowStart(q) # NoTime /\ q.EndTime # NoTime /\ WindowStart(q) > q.EndTime
    THEN "start_time must be before end_time"
  ELSE IF q.Limit > 1000 THEN "limit cannot exceed 1000"
  ELSE IF q.Offset < 0 THEN "offset cannot be negative"
  ELSE IF q.SortBy # <<>> /\ ToLower(q.SortBy) \notin validSortFields
    THEN "invalid sort_by field"
  ELSE IF q.SortOrder # <<>> /\ ToUpper(q.SortOrder) \notin {ASC, DESC}
    THEN "invalid sort_order"
  ELSE "nil"

QueryRequest_Validate_KeepCase(q) ==
  [q EXCEPT
     !.Levels = UpperAll(q.Levels),
     !.ExcludeLevel = ToUpper(q.ExcludeLevel),
     !.ExcludeLevels = UpperAll(q.ExcludeLevels),
     !.StartTime = WindowStart(q),
     !.MessageContains = IF q.Message # <<>> /\ q.MessageContains = <<>>
                           THEN q.Message ELSE q.MessageContains,
     !.Limit = IF q.Limit <= 0 THEN 100 ELSE q.Limit,
     !.SortBy = IF q.SortBy = <<>> THEN timestamp ELSE q.SortBy,
     !.SortOrder = IF q.SortOrder = <<>> THEN DESC ELSE ToUpper(q.SortOrder)]

\* QueryRequest.Validate: the request as Validate leaves it when it returns nil.
QueryRequest_Validate(q) ==
  [q EXCEPT
     !.Level = ToUpper(q.Level),
     !.Levels = UpperAll(q.Levels),
     !.ExcludeLevel = ToUpper(q.ExcludeLevel),
     !.ExcludeLevels = UpperAll(q.ExcludeLevels),
     !.StartTime = WindowStart(q),
     !.MessageContains = IF q.Message # <<>> /\ q.MessageContains = <<>>
                           THEN q.Message ELSE q.MessageContains,
     !.Limit = IF q.Limit <= 0 THEN 100 ELSE q.Limit,
     !.SortBy = IF q.SortBy = <<>> THEN timestamp ELSE q.SortBy,
     !.SortOrder = IF q.SortOrder = <<>> THEN DESC ELSE ToUpper(q.SortOrder)]

\* "%" + text + "%"
LikePattern(text) == <<"%">> \o text \o <<"%">>

\* The blocks of ToSQL in the order of the code: the test that guards the
\* block, the column and the operator of its condition and the values it
\* appends to args (the elements of a list, one by one).
Clause(present, col, op, vals) ==
  [present |-> present, col |-> col, op |-> op, vals |-> vals]

\* The block that comes first: "Always filter by user_id".
TenantClause(userID) == Clause(TRUE, "user_id", "=", <<userID>>)

FilterClauses(q) ==
  << Clause(q.Level # <<>>, "level", "=", <<q.Level>>),
     Clause(q.Source # <<>>, "source", "=", <<q.Source>>),
     Clause(q.Service # <<>>, "service", "=", <<q.Service>>),
     Clause(Len(q.Levels) > 0, "level", "IN", q.Levels),
     Clause(Len(q.Sources) > 0, "source", "IN", q.Sources),
     Clause(Len(q.Services) > 0, "service", "IN", q.Services),
     Clause(q.ExcludeLevel # <<>>, "level", "!=", <<q.ExcludeLevel>>),
     Clause(Len(q.ExcludeLevels) > 0, "level", "NOT IN", q.ExcludeLevels),
     Clause(q.ExcludeSource # <<>>, "source", "!=", <<q.ExcludeSource>>),
     Clause(Len(q.ExcludeSources) > 0, "source", "NOT IN", q.ExcludeSources),
     Clause(q.MessageContains # <<>>, "message", "ILIKE",
            <<LikePattern(q.MessageContains)>>),
     Clause(q.MessageNotContains # <<>>, "message", "NOT ILIKE",
            <<LikePattern(q.MessageNotContains)>>),
     Clause(q.StartTime # NoTime, "timestamp", ">=", <<q.StartTime>>),
     Clause(q.EndTime # NoTime, "timestamp", "<=", <<q.EndTime>>) >>

Clauses_TenantLast(q, userID) == FilterClauses(q) \o <<TenantClause(userID)>>

Clauses(q, userID) == <<TenantClause(userID)>> \o FilterClauses(q)

IsPresent(c) == c.present

ArgIndex_PerBlock(cs, k) == k

\* argIndex when the k-th executed block starts: 1 at first, and one more for
\* every value appended to args.
RECURSIVE ArgIndex(_, _)
ArgIndex(cs, k) == IF k = 1 THEN 1 ELSE ArgIndex(cs, k - 1) + Len(cs[k - 1].vals)

\* args after the first k executed blocks.
RECURSIVE Args(_, _)
Args(cs, k) == IF k = 0 THEN <<>> ELSE Args(cs, k - 1) \o cs[k].vals

\* A condition is kept as its column, its operator and the numbers of its
\* placeholders; whereClause is the list of the conditions, joined by AND.
ToSQL(q, userID) ==
  LET cs == SelectSeq(Clauses(q, userID), IsPresent)
  IN  [whereClause |->
         [k \in DOMAIN cs |->
            [col |-> cs[k].col, op |-> cs[k].op,
             ph |-> [i \in DOMAIN cs[k].vals |-> ArgIndex(cs, k) + i - 1]]],
       args |-> Args(cs, Len(cs))]

(* ------------------------- the logs table, read ----------------------- *)
\* text LIKE pattern: % matches any run of characters, _ any one character.
RECURSIVE Like(_, _)
Like(text, pattern) ==
  IF pattern = <<>> THEN text = <<>>
  ELSE IF Head(pattern) = "%"
    THEN Like(text, Tail(pattern)) \/ (text # <<>> /\ Like(Tail(text), pattern))
  ELSE IF text = <<>> THEN FALSE
  ELSE IF Head(pattern) = "_" THEN Like(Tail(text), Tail(pattern))
  ELSE Head(text) = Head(pattern) /\ Like(Tail(text), Tail(pattern))

ILike(text, pattern) == Like(ToLower(text), ToLower(pattern))

Column(log, col) ==
  CASE col = "user_id" -> log.UserID
    [] col = "level" -> log.Level
    [] col = "source" -> log.Source
    [] col = "service" -> log.Service
    [] col = "message" -> log.Message
    [] col = "timestamp" -> log.Timestamp

\* One condition of a WHERE clause, on one row, with the bound arguments.
ConditionHolds(cond, args, log) ==
  LET v == Column(log, cond.col)
      a == args[cond.ph[1]]
  IN  CASE cond.op = "=" -> v = a
        [] cond.op = "!=" -> v # a
        [] cond.op = "IN" -> \E i \in DOMAIN cond.ph : v = args[cond.ph[i]]
        [] cond.op = "NOT IN" -> \A i \in DOMAIN cond.ph : v # args[cond.ph[i]]
        [] cond.op = "ILIKE" -> ILike(v, a)
        [] cond.op = "NOT ILIKE" -> ~ILike(v, a)
        [] cond.op = ">=" -> v >= a
        [] cond.op = "<=" -> v <= a

\* The rows of logs that the conditions, ANDed, select.
Matching(whereClause, args) ==
  { i \in DOMAIN dbLogs :
      \A k \in DOMAIN whereClause : ConditionHolds(whereClause[k], args, dbLogs[i].log) }

\* PostgresStorage.CountLogs: SELECT COUNT(*) FROM logs WHERE <whereClause>
CountLogs(whereClause, args) == Cardinality(Matching(whereClause, args))

\* The orders in which ORDER BY <sortBy> <sortOrder> can return the rows:
\* rows with equal keys come in any order.  The order of text columns
\* depends on the collation and is left open.
Orderings(rows, sortBy, sortOrder) ==
  { o \in [1..Cardinality(rows) -> rows] :
      /\ \A i, j \in DOMAIN o : i # j => o[i] # o[j]
      /\ ToLower(sortBy) = timestamp =>
           \A i, j \in DOMAIN o : i < j =>
             IF sortOrder = ASC
               THEN dbLogs[o[i]].log.Timestamp <= dbLogs[o[j]].log.Timestamp
               ELSE dbLogs[o[i]].log.Timestamp >= dbLogs[o[j]].log.Timestamp }

\* LIMIT limit OFFSET offset of an ordered result.
Page(o, limit, offset) ==
  [i \in 1..Min(limit, IF Len(o) > offset THEN Len(o) - offset ELSE 0) |->
     dbLogs[o[offset + i]]]

\* PostgresStorage.QueryLogs: the pages SELECT ... WHERE <whereClause>
\* ORDER BY <sortBy> <sortOrder> LIMIT <limit> OFFSET <offset> can return.
StorageQueryLogs(whereClause, args, sortBy, sortOrder, limit, offset) ==
  { Page(o, limit, offset) :
      o \in Orderings(Matching(whereClause, args), sortBy, sortOrder) }

\* PostgresStorage.GetRecentLogsByUser: WHERE user_id = $1 ORDER BY timestamp
\* DESC LIMIT $2
GetRecentLogsByUser(userID, limit) ==
  { Page(o, limit, 0) :
      o \in Orderings({i \in DOMAIN dbLogs : dbLogs[i].log.UserID = userID},
                      timestamp, DESC) }

(* ---------------------------- the query handlers ---------------------- *)
NoQuery == [op |-> "none"]

QueryResponse(op, userID, filter, status, error, logs, total, limit, offset) ==
  [op |-> op, user |-> userID, filter |-> filter, status |-> status, error |-> error,
   logs |-> logs, total_count |-> total, limit |-> limit, offset |-> offset]

\* The exchange of a request that reached storage: the response and, with it,
\* what the handler passed to CountLogs and QueryLogs.
Executed(response, sql, req) ==
  [op |-> response.op, user |-> response.user, filter |-> response.filter,
   status |-> response.status, error |-> response.error, logs |-> response.logs,
   total_count |-> response.total_count, limit |-> response.limit,
   offset |-> response.offset,
   whereClause |-> sql.whereClause, args |-> sql.args,
   sortBy |-> req.SortBy, sortOrder |-> req.SortOrder]

QueryUnchanged == UNCHANGED <<queueVars, authVars>>

\* QueryHandler.QueryLogs, for a request the middleware passed on with
\* user_id set (userID = NoUser: not set).
QueryLogs(userID, filter) ==
  LET err == QueryRequest_ValidateErr(filter)
      req == QueryRequest_Validate(filter)
      sql == ToSQL(req, userID)
  IN  /\ query.op = "none"
      /\ \/ /\ userID = NoUser
            /\ query' = QueryResponse("query", userID, filter, 401,
                                      "Authentication required", <<>>, 0, 0, 0)
         \/ /\ userID # NoUser
            /\ err # "nil"
            /\ query' = QueryResponse("query", userID, filter, 400, err, <<>>, 0, 0, 0)
         \/ /\ userID # NoUser
            /\ err = "nil"
            /\ \E logs \in StorageQueryLogs(sql.whereClause, sql.args, req.SortBy,
                                            req.SortOrder, req.Limit, req.Offset) :
                 query' = Executed(QueryResponse("query", userID, filter, 200, "", logs,
                                                 CountLogs(sql.whereClause, sql.args),
                                                 req.Limit, req.Offset),
                                   sql, req)
      /\ QueryUnchanged

RecentLimit == 50

\* IngestionService.GetRecentLogs
GetRecentLogs(userID) ==
  /\ query.op = "none"
  /\ \/ /\ userID = NoUser
        /\ query' = QueryResponse("recent", userID, EmptyFilter, 401,
                                  "Authentication required", <<>>, 0, 0, 0)
     \/ /\ userID # NoUser
        /\ \E logs \in GetRecentLogsByUser(userID, RecentLimit) :
             query' = QueryResponse("recent", userID, EmptyFilter, 200, "", logs,
                                    Len(logs), RecentLimit, 0)
  /\ QueryUnchanged

\* The response is written and the handler returns.
QueryDone ==
  /\ query.op # "none"
  /\ query' = NoQuery
  /\ QueryUnchanged

\* PostgresStorage.DeleteLogs: DELETE FROM logs WHERE <whereClause>; the rows
\* that stay in the table.
StorageDeleteLogs(whereClause, args) ==
  LET gone == { dbLogs[i] : i \in Matching(whereClause, args) }
  IN  SelectSeq(dbLogs, LAMBDA row : row \notin gone)

DeleteResponse(userID, filter, status, error, sql, count) ==
  [op |-> "delete", user |-> userID, filter |-> filter, status |-> status,
   error |-> error, whereClause |-> sql.whereClause, args |-> sql.args,
   deleted_count |-> count]

NoSQL == [whereClause |-> <<>>, args |-> <<>>]

DeleteSQL_AsPosted(filter, userID) == ToSQL(filter, userID)

\* req.Validate() and then req.ToSQL(userID), on the request DeleteLogs bound.
DeleteSQL(filter, userID) == ToSQL(QueryRequest_Validate(filter), userID)

\* QueryHandler.DeleteLogs, for a request the middleware passed on with
\* user_id set (userID = NoUser: not set).
DeleteLogs(userID, filter) ==
  LET err == QueryRequest_ValidateErr(filter)
      sql == DeleteSQL(filter, userID)
  IN  /\ query.op = "none"
      /\ \/ /\ userID = NoUser
            /\ query' = DeleteResponse(userID, filter, 401, "Authentication required",
                                       NoSQL, 0)
            /\ UNCHANGED <<dbLogs, failBudget>>
         \/ /\ userID # NoUser
            /\ err # "nil"
            /\ query' = DeleteResponse(userID, filter, 400, err, NoSQL, 0)
            /\ UNCHANGED <<dbLogs, failBudget>>
         \/ /\ userID # NoUser
            /\ err = "nil"
            /\ failBudget > 0
            /\ failBudget' = failBudget - 1
            /\ query' = DeleteResponse(userID, filter, 500, "Failed to delete logs", sql, 0)
            /\ UNCHANGED dbLogs
         \/ /\ userID # NoUser
            /\ err = "nil"
            /\ dbLogs' = StorageDeleteLogs(sql.whereClause, sql.args)
            /\ query' = DeleteResponse(userID, filter, 200, "", sql,
                                       Cardinality(Matching(sql.whereClause, sql.args)))
            /\ UNCHANGED failBudget
      /\ UNCHANGED <<stream, groupCreated, lastDelivered, pel, acked, cpc, cbatch,
                     cancelled, handlerCalls, handlerFailed, http, authVars>>

(* ------------- the synchronous ingester (cmd/ingester) ---------------- *)
\* The exchange of IngestBatch with InsertLogs in it: status 0 while the
\* transaction is open, entries the records to insert, inTx the rows inserted
\* in the open transaction, before the table as it was when the request came.
SyncExchange(userID, items, status, errors, entries, inTx, created, before) ==
  [op |-> "sync", user |-> userID, items |-> items, status |-> status,
   errors |-> errors, entries |-> entries, inTx |-> inTx, created |-> created,
   before |-> before]

SyncFinished(status, errors, created) ==
  SyncExchange(http.user, http.items, status, errors, <<>>, <<>>, created, http.before)

SyncUnchanged ==
  UNCHANGED <<stream, groupCreated, lastDelivered, pel, acked, cpc, cbatch, cancelled,
              handlerCalls, handlerFailed, authVars, query>>

\* IngestionService.IngestBatch up to s.db.Begin() and tx.Prepare(query) of
\* InsertLogs.
SyncIngestBatch(userID, items) ==
  LET logEntries == BatchEntries(userID, items, 1)
      validationErrors == BatchErrors(items, 1)
      answer(status, errors) ==
        SyncExchange(userID, items, status, errors, <<>>, <<>>, 0, dbLogs)
  IN  /\ IF http.op = "none" THEN TRUE ELSE http.status # 0
      /\ \/ /\ userID = NoUser
            /\ http' = answer(401, <<>>)
            /\ UNCHANGED failBudget
         \/ /\ userID # NoUser
            /\ BatchSizeError(items) # "nil"
            /\ http' = answer(400, <<>>)
            /\ UNCHANGED failBudget
         \/ /\ userID # NoUser
            /\ BatchSizeError(items) = "nil"
            /\ Len(validationErrors) > 0
            /\ http' = answer(400, validationErrors)
            /\ UNCHANGED failBudget
         \/ /\ userID # NoUser
            /\ BatchSizeError(items) = "nil"
            /\ Len(validationErrors) = 0
            /\ \/ /\ failBudget > 0
                  /\ failBudget' = failBudget - 1
                  /\ http' = answer(500, <<>>)
               \/ /\ http' = SyncExchange(userID, items, 0, <<>>, logEntries, <<>>, 0,
                                          dbLogs)
                  /\ UNCHANGED failBudget
      /\ UNCHANGED dbLogs
      /\ SyncUnchanged

AfterExec_AutoCommit(table, inTx, log) ==
  [table |-> Append(table, [mid |-> 0, log |-> log]), inTx |-> inTx]

\* stmt.Exec on the statement prepared in the transaction: the row is in the
\* transaction, not in the table.
AfterExec(table, inTx, log) ==
  [table |-> table, inTx |-> Append(inTx, [mid |-> 0, log |-> log])]

\* One pass of the loop of InsertLogs: stmt.Exec for the next record; on its
\* error InsertLogs returns, the deferred tx.Rollback() runs and IngestBatch
\* answers 500.
InsertLogsExec ==
  /\ http.op = "sync"
  /\ http.status = 0
  /\ Len(http.inTx) < Len(http.entries)
  /\ \/ /\ failBudget > 0
        /\ failBudget' = failBudget - 1
        /\ http' = SyncFinished(500, <<>>, 0)
        /\ UNCHANGED dbLogs
     \/ LET after == AfterExec(dbLogs, http.inTx, http.entries[Len(http.inTx) + 1])
        IN  /\ dbLogs' = after.table
            /\ http' = [http EXCEPT !.inTx = after.inTx]
            /\ UNCHANGED failBudget
  /\ SyncUnchanged

\* tx.Commit() after the loop: the rows of the transaction are in the table,
\* or, when the commit is refused, none is; IngestBatch answers 201 or 500.
InsertLogsCommit ==
  /\ http.op = "sync"
  /\ http.status = 0
  /\ Len(http.inTx) = Len(http.entries)
  /\ \/ /\ failBudget > 0
        /\ failBudget' = failBudget - 1
        /\ http' = SyncFinished(500, <<>>, 0)
        /\ UNCHANGED dbLogs
     \/ /\ dbLogs' = dbLogs \o http.inTx
        /\ http' = SyncFinished(201, <<>>, Len(http.entries))
        /\ UNCHANGED failBudget
  /\ SyncUnchanged

(* --------------------------- specifications --------------------------- *)
QueueInit ==
  /\ stream = <<>>
  /\ groupCreated = FALSE
  /\ lastDelivered = 0
  /\ pel = {}
  /\ acked = {}
  /\ cpc = [c \in Consumers |-> "init"]
  /\ cbatch = [c \in Consumers |-> <<>>]
  /\ cancelled = [c \in Consumers |-> FALSE]
  /\ dbLogs = <<>>
  /\ handlerCalls = [m \in 1..(MaxStream + 1) |-> 0]
  /\ handlerFailed = {}
  /\ failBudget \in 0..MaxFail
  /\ http = Idle
  /\ query = NoQuery

AuthInit ==
  /\ keyActive = [k \in Keys |-> TRUE]
  /\ userActive = [u \in Users |-> TRUE]
  /\ cache = [k \in Keys |-> NoUser]
  /\ reqs = [r \in ReqIds |-> FreeReq]
  /\ goroutines = {}
  /\ dbLookups = [k \in Keys |-> 0]
  /\ deleteResponded = {}
  /\ ttlExpired = FALSE
  /\ overlap = FALSE

\* The requests of the concurrency model: validations that present the key
\* k1 on the key-only and on the either-scheme routes, and deletions of k1 by
\* its owner and by the other tenant.
KeyHeaders == { [form |-> "bearer", token |-> KeyToken(k)] : k \in {"k1"} }

AuthNext ==
  \/ \E r \in ReqIds, mw \in {"apikey", "either"}, h \in KeyHeaders :
       Authenticate(r, mw, h)
  \/ \E r \in ReqIds : LookupKey(r)
  \/ \E g \in goroutines : CacheAPIKey(g)
  \/ \E r \in ReqIds, u \in Users, k \in {"k1"} : DeleteAPIKey(r, u, k)
  \/ \E g \in goroutines : InvalidateCachedAPIKey(g)
  \/ \E r \in ReqIds : DeactivateAPIKey(r)
  \/ \E r \in ReqIds : DeleteRespond(r)
  \/ \E k \in Keys : Expire(k)

\* The three middlewares over every header, with keys and users that are
\* active or were deactivated earlier.
MiddlewareInit ==
  /\ QueueInit
  /\ failBudget = 0
  /\ keyActive \in [Keys -> BOOLEAN]
  /\ userActive \in [Users -> BOOLEAN]
  /\ cache = [k \in Keys |-> NoUser]
  /\ reqs = [r \in ReqIds |-> FreeReq]
  /\ goroutines = {}
  /\ dbLookups = [k \in Keys |-> 0]
  /\ deleteResponded = {}
  /\ ttlExpired = FALSE
  /\ overlap = FALSE

MiddlewareReqs == {1, 2}

MiddlewareNext ==
  \/ \E r \in MiddlewareReqs, route \in Routes, h \in Headers :
       Authenticate(r, RouteMiddleware(route), h)
  \/ \E r \in MiddlewareReqs : LookupKey(r)
  \/ \E g \in goroutines : CacheAPIKey(g)

Init == QueueInit /\ AuthInit

\* The requests that feed the pipeline: valid items of one tenant.
PipelineUsers == {1}
PipelineBodies == { Body(<<"a">>, <<"e","r","r","o","r">>, <<"m">>, NoUser) }

Next ==
  \/ \E u \in PipelineUsers, body \in PipelineBodies : Room(1) /\ IngestLog(u, body)
  \/ \E msg \in MalformedEnvelopes : AppendMalformed(msg)
  \/ \E c \in Consumers : Start(c)
  \/ \E c \in Consumers : Loop(c)
  \/ \E c \in Consumers : Continue(c)
  \/ \E c \in Consumers : Process(c)
  \/ \E c \in Consumers : Cancel(c)
  \/ \E c \in Consumers : Exit(c)

Spec == Init /\ [][Next]_vars

\* A consumer goroutine that can take a step of ConsumeLogStream takes it.
Fairness ==
  \A c \in Consumers :
    /\ WF_vars(Start(c))
    /\ WF_vars(Loop(c))
    /\ WF_vars(Continue(c))
    /\ WF_vars(Process(c))

FairSpec == Init /\ [][Next]_vars /\ Fairness

\* The gateway alone, over every request body and batch.
GatewayNext ==
  \/ \E u \in Users \cup {NoUser}, body \in IngestBodies : Room(1) /\ IngestLog(u, body)
  \/ \E u \in Users \cup {NoUser}, items \in Batches :
       Room(Len(items)) /\ IngestBatch(u, items)

GatewaySpec == Init /\ [][GatewayNext]_vars

\* The credential validator and the API-key handlers.
AuthSpecInit == QueueInit /\ failBudget = 0 /\ AuthInit

AuthSpec == AuthSpecInit /\ [][AuthNext]_vars

MiddlewareSpec == MiddlewareInit /\ [][MiddlewareNext]_vars

\* The middlewares while Redis fails: as MiddlewareInit, with failures of
\* the cache lookups to come.
OutageInit ==
  /\ QueueInit
  /\ failBudget = MaxFail
  /\ keyActive \in [Keys -> BOOLEAN]
  /\ userActive \in [Users -> BOOLEAN]
  /\ cache = [k \in Keys |-> NoUser]
  /\ reqs = [r \in ReqIds |-> FreeReq]
  /\ goroutines = {}
  /\ dbLookups = [k \in Keys |-> 0]
  /\ deleteResponded = {}
  /\ ttlExpired = FALSE
  /\ overlap = FALSE

OutageSpec == OutageInit /\ [][MiddlewareNext]_vars

\* The query handlers over a store of rows of two tenants and over filters
\* that set up to two fields of the request.
RowPool ==
  << [UserID |-> 1, Source |-> <<"a">>, Level |-> ERROR, Message |-> <<"a","b","c">>,
      Service |-> <<"s">>, Timestamp |-> Now - 2],
     [UserID |-> 2, Source |-> <<"a">>, Level |-> ERROR, Message |-> <<"a","b","c">>,
      Service |-> <<"s">>, Timestamp |-> Now - 2],
     [UserID |-> 1, Source |-> <<"b">>, Level |-> INFO, Message |-> <<"a","_","c">>,
      Service |-> <<>>, Timestamp |-> Now - 100],
     [UserID |-> 1, Source |-> <<"a">>, Level |-> WARN, Message |-> <<"B">>,
      Service |-> <<"s">>, Timestamp |-> Now - 2000] >>

RECURSIVE StoreOf(_, _)
StoreOf(picked, i) ==
  IF i > Len(RowPool) THEN <<>>
  ELSE IF i \in picked
    THEN <<[mid |-> i, log |-> RowPool[i]]>> \o StoreOf(picked, i + 1)
    ELSE StoreOf(picked, i + 1)

Stores == { StoreOf(picked, 1) : picked \in SUBSET DOMAIN RowPool }

LevelTexts == { <<"e","r","r","o","r">>, <<"I","n","f","o">>, <<"t","r","a","c","e">> }
LevelLists == { <<<<"e","r","r","o","r">>, <<"w","a","r","n">>>>, <<<<"t","r","a","c","e">>>> }
SourceTexts == { <<"a">>, <<"b">> }
SourceLists == { <<<<"a">>, <<"b">>>>, <<<<"b">>>> }
MessageTexts == { <<"a","_","c">>, <<"b">>, <<"%">> }

\* The requests that differ from q in one field.
OneField(q) ==
  { [q EXCEPT !.Level = v] : v \in LevelTexts }
  \cup { [q EXCEPT !.Source = v] : v \in SourceTexts }
  \cup { [q EXCEPT !.Service = v] : v \in {<<"s">>} }
  \cup { [q EXCEPT !.Message = v] : v \in MessageTexts }
  \cup { [q EXCEPT !.Levels = v] : v \in LevelLists }
  \cup { [q EXCEPT !.Sources = v] : v \in SourceLists }
  \cup { [q EXCEPT !.Services = v] : v \in {<<<<"s">>>>} }
  \cup { [q EXCEPT !.ExcludeLevel = v] : v \in LevelTexts }
  \cup { [q EXCEPT !.ExcludeLevels = v] : v \in LevelLists }
  \cup { [q EXCEPT !.ExcludeSource = v] : v \in SourceTexts }
  \cup { [q EXCEPT !.ExcludeSources = v] : v \in SourceLists }
  \cup { [q EXCEPT !.MessageContains = v] : v \in MessageTexts }
  \cup { [q EXCEPT !.MessageNotContains = v] : v \in MessageTexts }
  \cup { [q EXCEPT !.StartTime = v] : v \in {Now - 50} }
  \cup { [q EXCEPT !.EndTime = v] : v \in {Now - 50, Now - 1500} }
  \cup { [q EXCEPT !.LastMinutes = v] : v \in {5} }
  \cup { [q EXCEPT !.LastHours = v] : v \in {2} }
  \cup { [q EXCEPT !.LastDays = v] : v \in {1} }
  \cup { [q EXCEPT !.Limit = v] : v \in {1, 1000, 1001} }
  \cup { [q EXCEPT !.Offset = v] : v \in {-1, 1} }
  \cup { [q EXCEPT !.SortBy = v] : v \in {level, <<"T","i","m","e","s","t","a","m","p">>, <<"i","d">>} }
  \cup { [q EXCEPT !.SortOrder = v] : v \in {<<"a","s","c">>, <<"u","p">>} }

Filters == {EmptyFilter} \cup UNION { OneField(q) : q \in OneField(EmptyFilter) }

QueryInit ==
  /\ stream = <<>>
  /\ groupCreated = FALSE
  /\ lastDelivered = 0
  /\ pel = {}
  /\ acked = {}
  /\ cpc = [c \in Consumers |-> "init"]
  /\ cbatch = [c \in Consumers |-> <<>>]
  /\ cancelled = [c \in Consumers |-> FALSE]
  /\ dbLogs \in Stores
  /\ handlerCalls = [m \in 1..(MaxStream + 1) |-> 0]
  /\ handlerFailed = {}
  /\ failBudget = 0
  /\ http = Idle
  /\ query = NoQuery
  /\ AuthInit

QueryNext ==
  \/ \E u \in Users \cup {NoUser}, f \in Filters : QueryLogs(u, f)
  \/ \E u \in Users \cup {NoUser} : GetRecentLogs(u)
  \/ QueryDone

QuerySpec == QueryInit /\ [][QueryNext]_vars

\* DeleteLogs over the stores and the filters of QuerySpec; storage can fail
\* once.
DeleteInit ==
  /\ stream = <<>>
  /\ groupCreated = FALSE
  /\ lastDelivered = 0
  /\ pel = {}
  /\ acked = {}
  /\ cpc = [c \in Consumers |-> "init"]
  /\ cbatch = [c \in Consumers |-> <<>>]
  /\ cancelled = [c \in Consumers |-> FALSE]
  /\ dbLogs \in Stores
  /\ handlerCalls = [m \in 1..(MaxStream + 1) |-> 0]
  /\ handlerFailed = {}
  /\ failBudget \in {0, 1}
  /\ http = Idle
  /\ query = NoQuery
  /\ AuthInit

DeleteNext ==
  \/ \E u \in Users \cup {NoUser}, f \in Filters : DeleteLogs(u, f)
  \/ QueryDone

DeleteSpec == DeleteInit /\ [][DeleteNext]_vars

\* The synchronous ingester: batches one after the other, each into a table
\* of at most one row.
SyncInit == Init

SyncNext ==
  \/ \E u \in Users \cup {NoUser}, items \in Batches :
       Len(dbLogs) <= 1 /\ SyncIngestBatch(u, items)
  \/ InsertLogsExec
  \/ InsertLogsCommit

SyncSpec == SyncInit /\ [][SyncNext]_vars

\* The gateway over the spellings of the level: each of the five levels in
\* upper case, in lower case, capitalised and with only the first letter
\* small, and levels and items that are not valid.
LevelSpellings ==
  UNION { { L, ToLower(L), <<L[1]>> \o ToLower(Tail(L)),
            ToLower(<<L[1]>>) \o Tail(L) } : L \in validLevels }

BadLevels ==
  { <<"t","r","a","c","e">>, <<"w","a","r","n","i","n","g">>, <<"I","N","F">>,
    <<" ","i","n","f","o">>, <<>> }

LevelBodies ==
  { Body(<<"a">>, l, <<"m">>, NoUser) : l \in LevelSpellings \cup BadLevels }
  \cup { Body(<<>>, INFO, <<"m">>, NoUser), Body(<<"a">>, INFO, <<>>, NoUser) }

BatchLevelBodies ==
  { Body(<<"a">>, <<"d","e","b","u","g">>, <<"m">>, NoUser),
    Body(<<"a">>, <<"W","a","r","n">>, <<"m">>, NoUser),
    Body(<<"a">>, FATAL, <<"m">>, NoUser),
    Body(<<"a">>, <<" ","i","n","f","o">>, <<"m">>, NoUser) }

LevelBatches == UNION { [1..n -> BatchLevelBodies] : n \in 1..MaxBatch }

LevelInit == Init /\ failBudget = 0

LevelNext ==
  \/ \E body \in LevelBodies : Room(1) /\ IngestLog(1, body)
  \/ \E items \in LevelBatches : Room(Len(items)) /\ IngestBatch(1, items)

LevelSpec == LevelInit /\ [][LevelNext]_vars

\* The gateway over batch sizes at and around the limit: no item, one item,
\* one less than the limit, the limit, one more; all items valid, all
\* invalid, or only the last one invalid.
BatchSizes == {0, 1, MaxBatchSize - 1, MaxBatchSize, MaxBatchSize + 1}

SizeValid == Body(<<"a">>, <<"i","n","f","o">>, <<"m">>, NoUser)

SizeInvalid == Body(<<>>, <<"i","n","f","o">>, <<"m">>, NoUser)

SizedBatches ==
  UNION { { [i \in 1..n |-> SizeValid], [i \in 1..n |-> SizeInvalid],
            [i \in 1..n |-> IF i = n THEN SizeInvalid ELSE SizeValid] }
          : n \in BatchSizes }

SizeInit == Init /\ failBudget = 0

\* The first request a started gateway serves.
SizeNext == \E items \in SizedBatches : http = Idle /\ IngestBatch(1, items)

SizeSpec == SizeInit /\ [][SizeNext]_vars

\* The way of a record from the gateway through the queue to storage: items
\* of both tenants with and without service, timestamp and fields, and one
\* consumer whose handler works.
RoundTripBodies ==
  { Body(<<"a">>, <<"i","n","f","o">>, <<"m">>, NoUser),
    BodyWith(Body(<<"b">>, ERROR, <<"m">>, NoUser), <<"s">>, 7, FieldsOf({})),
    BodyWith(Body(<<"a">>, <<"W","a","r","n">>, <<"n">>, NoUser), <<>>, 9,
             FieldsOf({<<"k", "v">>})) }

RoundTripEntries == { StampedEntry(u, b) : u \in Users, b \in RoundTripBodies }

RoundTripInit == Init /\ failBudget = 0

RoundTripNext ==
  \/ \E u \in Users, body \in RoundTripBodies : Room(1) /\ IngestLog(u, body)
  \/ \E c \in {1} : Start(c)
  \/ \E c \in {1} : Loop(c)
  \/ \E c \in {1} : Continue(c)
  \/ \E c \in {1} : Process(c)

RoundTripSpec == RoundTripInit /\ [][RoundTripNext]_vars

\* Ingestion followed by a query: items of one tenant whose level is spelled
\* in several letter cases, one consumer whose handler works, and queries by
\* level and source.
IngestQueryBodies ==
  { Body(<<"a">>, <<"e","r","r","o","r">>, <<"m">>, NoUser),
    Body(<<"a">>, <<"E","r","r","o","r">>, <<"m">>, NoUser),
    Body(<<"a">>, INFO, <<"m">>, NoUser),
    Body(<<"b">>, ERROR, <<"m">>, NoUser) }

IngestQueryFilters ==
  { [EmptyFilter EXCEPT !.Level = <<"e","r","r","o","r">>, !.Source = <<"a">>],
    [EmptyFilter EXCEPT !.Level = ERROR, !.Source = <<"a">>],
    [EmptyFilter EXCEPT !.Level = <<"I","n","f","o">>, !.Source = <<"a">>],
    [EmptyFilter EXCEPT !.Level = <<"e","R","R","o","R">>, !.Source = <<"b">>],
    [EmptyFilter EXCEPT !.Level = <<"i","n","f","o">>] }

IngestQueryInit == Init /\ failBudget = 0

IngestQueryNext ==
  \/ \E body \in IngestQueryBodies : Room(1) /\ IngestLog(1, body)
  \/ \E c \in {1} : Start(c)
  \/ \E c \in {1} : Loop(c)
  \/ \E c \in {1} : Continue(c)
  \/ \E c \in {1} : Process(c)
  \/ \E f \in IngestQueryFilters : QueryLogs(1, f)
  \/ QueryDone

IngestQuerySpec == IngestQueryInit /\ [][IngestQueryNext]_vars

\* Validate and ToSQL over requests that set the paging, sorting and level
\* fields, one or two at a time, and over every combination of the time
\* fields; the table of logs is empty.
ValidateFields(q) ==
  { [q EXCEPT !.Limit = v] : v \in {-1, 1, 100, 1000, 1001, 2000} }
  \cup { [q EXCEPT !.Offset = v] : v \in {-1, 1} }
  \cup { [q EXCEPT !.SortBy = v] :
           v \in {timestamp, level, source, service,
                  <<"T","i","m","e","s","t","a","m","p">>, <<"L","E","V","E","L">>,
                  <<"i","d">>, <<"m","e","s","s","a","g","e">>} }
  \cup { [q EXCEPT !.SortOrder = v] :
           v \in {ASC, DESC, <<"a","s","c">>, <<"D","e","s","c">>, <<"u","p">>} }
  \cup { [q EXCEPT !.Level = v] : v \in LevelTexts \cup {FATAL} }
  \cup { [q EXCEPT !.Levels = v] : v \in LevelLists \cup {<<DEBUG, <<"t","r","a","c","e">>>>} }
  \cup { [q EXCEPT !.ExcludeLevel = v] : v \in LevelTexts }
  \cup { [q EXCEPT !.ExcludeLevels = v] : v \in LevelLists \cup {<<<<"W","a","r","n">>>>} }

\* 106752 days are more than 2^63 ns.
TimeFilters ==
  { [EmptyFilter EXCEPT !.StartTime = st, !.EndTime = et, !.LastMinutes = lm,
                        !.LastHours = lh, !.LastDays = ld] :
      st \in {NoTime, Now - 50, Now - 10},
      et \in {NoTime, Now - 20, Now - 2000},
      lm \in {0, 5, 30},
      lh \in {0, 2},
      ld \in {0, 1, 106752} }

ValidateFilters ==
  {EmptyFilter}
  \cup UNION { ValidateFields(q) : q \in ValidateFields(EmptyFilter) }
  \cup TimeFilters

ValidateInit == Init /\ failBudget = 0

ValidateNext ==
  \/ \E f \in ValidateFilters : QueryLogs(1, f)
  \/ QueryDone

ValidateSpec == ValidateInit /\ [][ValidateNext]_vars

(* ------------------------------- claims ------------------------------- *)
Persisted(m) == \E i \in DOMAIN dbLogs : dbLogs[i].mid = m

Running(c) == cpc[c] \in {"loop", "blocked", "sleep", "proc"}

\* C2: every record the gateway appended is eventually persisted, provided
\* some consumer of the group keeps running (storage failures are transient:
\* failBudget is finite).
C2_EventuallyPersisted ==
  (\E c \in Consumers : <>[]Running(c)) =>
    \A m \in 1..MaxStream :
      [](m <= Len(stream) /\ WellFormed(stream[m]) => <>Persisted(m))

\* C3: a message whose handler returned an error is passed to the handler a
\* second time by a later read of the group, provided some consumer of the
\* group goes on reading.
C3_FailedIsRedelivered ==
  (\E c \in Consumers : <>[]Running(c)) =>
    \A m \in 1..MaxStream : [](m \in handlerFailed => <>(handlerCalls[m] >= 2))

AnyInvalid(items) ==
  \E i \in DOMAIN items : IngestRequest_Validate(ShouldBindJSON(items[i])) # "nil"

AnyValid(items) ==
  \E i \in DOMAIN items : IngestRequest_Validate(ShouldBindJSON(items[i])) = "nil"

\* C5: an IngestBatch request with an invalid item appends nothing to the
\* queue, and is answered 400 with the validation errors.
C5_BatchAllOrNothing ==
  [][(http'.op = "batch" /\ AnyInvalid(http'.items)) =>
        /\ stream' = stream
        /\ http'.status \in {400, 401}
        /\ (http'.user # NoUser => http'.status = 400 /\ http'.errors # <<>>)]_vars

C5_Witness ==
  /\ http.op = "batch"
  /\ http.status = 400
  /\ Len(http.items) >= 2
  /\ AnyInvalid(http.items)
  /\ AnyValid(http.items)

\* C6: an acknowledged message with a well-formed envelope has been persisted.
C6_AckedIsPersisted ==
  \A m \in acked : WellFormed(stream[m]) => Persisted(m)

C6_Witness == \E m \in acked : WellFormed(stream[m]) /\ Persisted(m)

\* C7: every entry a gateway request appends carries the tenant id of the
\* identity authenticated for the request, whatever the body says.
C7_TenantFromIdentity ==
  [][\A i \in (Len(stream) + 1)..Len(stream') :
        stream'[i].log.user_id = http'.user]_vars

C7_Witness ==
  /\ http.op \in {"ingest", "batch"}
  /\ http.appended >= 1
  /\ \E i \in DOMAIN http.items :
       http.items[i].user_id # NoUser /\ http.items[i].user_id # http.user
  /\ stream[Len(stream)].log.user_id = http.user

\* The entry the last request appended for its j-th item.
AppendedFor(j) == stream[Len(stream) - http.appended + j].log

\* C13: every record IngestLog or IngestBatch enqueues has the uppercase
\* form of the submitted level, and that is one of the five levels.
C13_LevelUppercased ==
  (http.op \in {"ingest", "batch"} /\ http.appended >= 1) =>
    \A j \in 1..http.appended :
      /\ AppendedFor(j).level = ToUpper(http.items[j].level)
      /\ AppendedFor(j).level \in validLevels

C13_Witness ==
  /\ http.op \in {"ingest", "batch"}
  /\ http.status = 202
  /\ http.appended >= 1
  /\ http.items[1].level \notin validLevels
  /\ ToLower(http.items[1].level) # http.items[1].level
  /\ AppendedFor(1).level \in validLevels

EqualFold(a, b) ==
  /\ Len(a) = Len(b)
  /\ \A i \in DOMAIN a : LowerChar(a[i]) = LowerChar(b[i])

\* The items validation has to reject: an empty source, level or message, or
\* a level that is none of the five, letter case ignored.
ShouldReject(item) ==
  \/ item.source = <<>>
  \/ item.level = <<>>
  \/ item.message = <<>>
  \/ ~\E L \in validLevels : EqualFold(item.level, L)

\* C14: an item is rejected exactly if it has to be.
C14_RejectedIff ==
  /\ (http.op = "ingest" /\ http.user # NoUser) =>
       (http.status = 400 <=> ShouldReject(http.items[1]))
  /\ (http.op = "batch" /\ http.user # NoUser /\ Len(http.items) \in 1..MaxBatchSize) =>
       \A i \in DOMAIN http.items :
         (\E k \in DOMAIN http.errors : http.errors[k].index = i - 1)
           <=> ShouldReject(http.items[i])

C14_Witness ==
  /\ http.op = "batch"
  /\ Len(http.items) >= 2
  /\ Len(http.errors) = 1
  /\ \E i \in DOMAIN http.items :
       http.items[i].level \notin validLevels /\ ~ShouldReject(http.items[i])

\* C15: IngestBatch answers an empty batch and a batch of more than 1000
\* items with a client error before it validates or enqueues any item, and
\* does not turn away a batch of exactly 1000 valid items.
C15_SizeChecked ==
  (http.op = "batch" /\ http.user # NoUser) =>
    /\ (Len(http.items) = 0 \/ Len(http.items) > 1000) =>
         (http.status = 400 /\ http.errors = <<>> /\ http.appended = 0)
    /\ (Len(http.items) = 1000 /\ \A i \in DOMAIN http.items : ~ShouldReject(http.items[i])) =>
         http.status \in {202, 500}

C15_Witness ==
  /\ http.op = "batch"
  /\ Len(http.items) = 1000
  /\ http.status = 202
  /\ http.queued = 1000
  /\ Len(stream) = 1000

\* The positions of the items of the last request that validation has to
\* reject, in batch order.
InvalidPositions ==
  LET Bad(i) == ShouldReject(http.items[i])
  IN  SelectSeq([i \in 1..Len(http.items) |-> i], Bad)

\* C16: the error list of a batch rejected for validation has one entry for
\* each invalid item and none for a valid one, in batch order, and each entry
\* reads "item N: reason" with N the index of its item.
C16_ErrorPerInvalidItem ==
  (http.op = "batch" /\ http.status = 400 /\ Len(http.errors) > 0) =>
    /\ Len(http.errors) = Len(InvalidPositions)
    /\ \A k \in DOMAIN http.errors :
         /\ http.errors[k].index = InvalidPositions[k] - 1
         /\ http.errors[k].prefix = "item"

Added == SubSeq(stream', Len(stream) + 1, Len(stream'))

Presented == { r \in ReqIds : reqs[r].kind = "validate" /\ reqs[r].header.form = "bearer" }

\* A token with a valid signature that has not expired.
ValidJWT(tok) == tok.kind = "jwt" /\ tok.good

\* A key that exists and is active, of an active user.
ValidKey(tok) ==
  tok.kind = "key" /\ tok.key \in Keys /\ keyActive[tok.key] /\ userActive[keyOwner[tok.key]]

IsPrefix(a, b) == Len(a) <= Len(b) /\ SubSeq(b, 1, Len(a)) = a

\* C19: on the routes that accept both schemes the token check is the first
\* call; a valid token is admitted as the user of its payload with no cache
\* or storage call; the cache and then the storage are only called after
\* the token check, and only for a credential that is not a valid token.
C19_TokenFirst ==
  \A r \in Presented :
    reqs[r].mw = RouteMiddleware("/logs/query") =>
      /\ reqs[r].steps # <<>> /\ reqs[r].steps[1] = "token"
      /\ IsPrefix(reqs[r].steps, <<"token", "cache", "db">>)
      /\ ValidJWT(reqs[r].header.token) =>
           /\ reqs[r].steps = <<"token">>
           /\ reqs[r].status = 200
           /\ reqs[r].user_id = reqs[r].header.token.user
      /\ Len(reqs[r].steps) > 1 => ~ValidJWT(reqs[r].header.token)

C19_Witness ==
  \E r, q \in Presented :
    /\ reqs[r].mw = "either" /\ reqs[q].mw = "either"
    /\ ValidJWT(reqs[r].header.token)
    /\ reqs[r].status = 200
    /\ reqs[r].steps = <<"token">>
    /\ reqs[q].header.token.kind = "key"
    /\ reqs[q].status = 200
    /\ reqs[q].steps = <<"token", "cache", "db">>

\* C20: a route that accepts one scheme does not fall back to the other.  On
\* the token-only routes no request reaches the cache or the key storage,
\* and a valid active key is rejected; on the key-only routes no request has
\* its token verified, and a valid token is not admitted.
C20_NoFallback ==
  \A r \in Presented :
    /\ reqs[r].mw = RouteMiddleware("/api-keys") =>
         /\ reqs[r].steps = <<"token">>
         /\ ValidKey(reqs[r].header.token) => reqs[r].status = 401
    /\ reqs[r].mw = RouteMiddleware("/logs/ingest") =>
         /\ \A i \in DOMAIN reqs[r].steps : reqs[r].steps[i] # "token"
         /\ ValidJWT(reqs[r].header.token) => reqs[r].status # 200
         /\ (ValidJWT(reqs[r].header.token) /\ reqs[r].pc = "done") =>
              reqs[r].status = 401

C20_Witness ==
  \E r, q \in Presented :
    /\ reqs[r].mw = "jwt"
    /\ ValidKey(reqs[r].header.token)
    /\ reqs[r].status = 401
    /\ reqs[r].steps = <<"token">>
    /\ reqs[q].mw = "apikey"
    /\ ValidJWT(reqs[q].header.token)
    /\ reqs[q].status = 401
    /\ reqs[q].steps = <<"cache", "db">>

\* The messages a consumer holds: delivered to it and not yet passed to
\* processMessage.
InHand(c) == { cbatch[c][i] : i \in DOMAIN cbatch[c] }

\* C23: with two consumers in one group no message is delivered to both: no
\* message is pending for two consumers at once, none is held by two
\* consumers at once, and none is handed to the handler twice.
C23_DeliveredToOne ==
  /\ \A e1, e2 \in pel : e1.id = e2.id => e1.consumer = e2.consumer
  /\ \A c1, c2 \in Consumers : c1 # c2 => InHand(c1) \cap InHand(c2) = {}
  /\ \A e \in pel, c \in Consumers : e.id \in InHand(c) => e.consumer = c
  /\ \A m \in DOMAIN handlerCalls : handlerCalls[m] <= 1

C23_Witness ==
  \E c1, c2 \in Consumers :
    /\ c1 # c2
    /\ cpc[c1] = "proc" /\ cpc[c2] = "proc"
    /\ InHand(c1) # {} /\ InHand(c2) # {}
    /\ \E e1, e2 \in pel : e1.consumer = c1 /\ e2.consumer = c2

\* Two records agree in tenant id, level, source, message, service,
\* timestamp and in the entries of fields.
SameRecord(a, b) ==
  /\ a.UserID = b.UserID
  /\ a.Level = b.Level
  /\ a.Source = b.Source
  /\ a.Message = b.Message
  /\ a.Service = b.Service
  /\ a.Timestamp = b.Timestamp
  /\ a.Fields.entries = b.Fields.entries

StoredFrom(d, u, src, lvl) ==
  \E body \in IngestQueryBodies :
    /\ body.source = src
    /\ body.level = lvl
    /\ stream[d.mid] = Envelope(StampedEntry(u, body))

Returned(d, logs) == \E i \in DOMAIN logs : logs[i] = d

\* C25: a query by level and source returns every stored record of the
\* tenant that was submitted with that source and with that level in any
\* letter case, and a query by level returns no record that was submitted
\* with a different level.
C25_IngestThenQuery ==
  [][(query'.op = "query" /\ query'.status = 200 /\ query # query') =>
       \A i \in DOMAIN dbLogs :
         \A body \in IngestQueryBodies :
           StoredFrom(dbLogs[i], query'.user, body.source, body.level) =>
             /\ ( /\ EqualFold(body.level, query'.filter.Level)
                  /\ query'.filter.Source \in {<<>>, body.source} )
                => Returned(dbLogs[i], query'.logs)
             /\ ~EqualFold(body.level, query'.filter.Level)
                => ~Returned(dbLogs[i], query'.logs)]_vars

C25_Witness ==
  /\ query.op = "query"
  /\ query.status = 200
  /\ query.filter.Level = <<"e","r","r","o","r">>
  /\ Len(dbLogs) = 2
  /\ Len(query.logs) = 1
  /\ StoredFrom(query.logs[1], 1, <<"a">>, <<"E","r","r","o","r">>)
  /\ \E i \in DOMAIN dbLogs : dbLogs[i].log.Level = INFO

\* C26: a limit above 1000 and a negative offset are rejected, a limit of 0
\* becomes 100, and a request that passed validation has a limit from 1 to
\* 1000 and an offset that is not negative.
C26_LimitAndOffset ==
  query.op = "query" =>
    /\ query.filter.Limit > 1000 => query.status = 400
    /\ query.filter.Offset < 0 => query.status = 400
    /\ query.status = 200 =>
         /\ query.limit >= 1 /\ query.limit <= 1000
         /\ query.offset >= 0
         /\ query.filter.Limit = 0 => query.limit = 100
         /\ query.filter.Limit > 0 => query.limit = query.filter.Limit
         /\ query.offset = query.filter.Offset

C26_Witness ==
  /\ query.op = "query"
  /\ query.status = 200
  /\ query.filter.Limit = 0
  /\ query.limit = 100
  /\ query.filter.Offset = 1

\* C27: a request that passed validation is handed to storage with a sort
\* order that is exactly ASC or DESC (DESC when none was given) and a sort
\* field that is exactly one of timestamp, level, source, service (timestamp
\* when none was given); a request naming any other field or order is rejected.
C27_SortRestricted ==
  query.op = "query" =>
    /\ query.status = 200 =>
         /\ query.sortOrder \in {ASC, DESC}
         /\ query.filter.SortOrder = <<>> => query.sortOrder = DESC
         /\ query.sortBy \in validSortFields
         /\ query.filter.SortBy = <<>> => query.sortBy = timestamp
    /\ ( /\ query.filter.SortBy # <<>>
         /\ ToLower(query.filter.SortBy) \notin validSortFields ) => query.status = 400
    /\ ( /\ query.filter.SortOrder # <<>>
         /\ ToUpper(query.filter.SortOrder) \notin {ASC, DESC} ) => query.status = 400

\* text contains sub, letter case ignored.
Contains(text, sub) ==
  \E i \in 1..(Len(text) - Len(sub) + 1) :
    ToLower(SubSeq(text, i, i + Len(sub) - 1)) = ToLower(sub)

UpperSet(ls) == {ToUpper(ls[i]) : i \in DOMAIN ls}

ListSet(ls) == {ls[i] : i \in DOMAIN ls}

\* The start of the time window a filter asks for: the relative window that
\* is evaluated last (days, then hours, then minutes), else start_time.
RequestedStart(f) ==
  IF f.LastDays > 0 THEN Now - f.LastDays * Day
  ELSE IF f.LastHours > 0 THEN Now - f.LastHours * Hour
  ELSE IF f.LastMinutes > 0 THEN Now - f.LastMinutes * Minute
  ELSE f.StartTime

\* The record satisfies every predicate the filter f supplies.
Satisfies(log, f) ==
  /\ f.Level # <<>> => log.Level = ToUpper(f.Level)
  /\ f.Source # <<>> => log.Source = f.Source
  /\ f.Service # <<>> => log.Service = f.Service
  /\ f.Levels # <<>> => log.Level \in UpperSet(f.Levels)
  /\ f.Sources # <<>> => log.Source \in ListSet(f.Sources)
  /\ f.Services # <<>> => log.Service \in ListSet(f.Services)
  /\ f.ExcludeLevel # <<>> => log.Level # ToUpper(f.ExcludeLevel)
  /\ f.ExcludeLevels # <<>> => log.Level \notin UpperSet(f.ExcludeLevels)
  /\ f.ExcludeSource # <<>> => log.Source # f.ExcludeSource
  /\ f.ExcludeSources # <<>> => log.Source \notin ListSet(f.ExcludeSources)
  /\ f.MessageContains # <<>> => Contains(log.Message, f.MessageContains)
  /\ (f.Message # <<>> /\ f.MessageContains = <<>>) => Contains(log.Message, f.Message)
  /\ f.MessageNotContains # <<>> => ~Contains(log.Message, f.MessageNotContains)
  /\ RequestedStart(f) # NoTime => log.Timestamp >= RequestedStart(f)
  /\ f.EndTime # NoTime => log.Timestamp <= f.EndTime

\* C4: every record QueryLogs or GetRecentLogs returns to a tenant has that
\* tenant's id and satisfies every predicate the filter supplies.
C4_ReturnedSatisfyFilter ==
  (query.op \in {"query", "recent"} /\ query.status = 200) =>
    \A i \in DOMAIN query.logs :
      /\ query.logs[i].log.UserID = query.user
      /\ query.op = "query" => Satisfies(query.logs[i].log, query.filter)

\* The values bound to the timestamp conditions of the compiled predicate.
CompiledBounds(op) ==
  { query.args[query.whereClause[i].ph[1]] :
      i \in { j \in DOMAIN query.whereClause :
                /\ query.whereClause[j].col = "timestamp"
                /\ query.whereClause[j].op = op } }

\* C28: a filter whose start time, given or computed from a relative window,
\* is after its end time is rejected, and no compiled predicate has a start
\* after its end.
C28_StartNotAfterEnd ==
  query.op = "query" =>
    /\ ( /\ RequestedStart(query.filter) # NoTime
         /\ query.filter.EndTime # NoTime
         /\ RequestedStart(query.filter) > query.filter.EndTime ) => query.status = 400
    /\ query.status = 200 =>
         \A st \in CompiledBounds(">=") : \A et \in CompiledBounds("<=") : st <= et

C28_Witness ==
  /\ query.op = "query"
  /\ query.status = 400
  /\ query.filter.StartTime = Now - 50
  /\ query.filter.LastMinutes = 5
  /\ query.filter.LastHours = 0
  /\ query.filter.LastDays = 0
  /\ query.filter.EndTime = Now - 20

\* The level texts a filter names in level, levels, exclude_level and
\* exclude_levels.
NamedLevels(f) ==
  (IF f.Level # <<>> THEN {f.Level} ELSE {})
  \cup ListSet(f.Levels)
  \cup (IF f.ExcludeLevel # <<>> THEN {f.ExcludeLevel} ELSE {})
  \cup ListSet(f.ExcludeLevels)

IsLevel(text) == \E l \in validLevels : EqualFold(text, l)

\* The values bound to each level condition of the compiled predicate that
\* has the operator op, in the order of their placeholders.
LevelArgs(op) ==
  { [k \in DOMAIN query.whereClause[i].ph |-> query.args[query.whereClause[i].ph[k]]] :
      i \in { j \in DOMAIN query.whereClause :
                /\ query.whereClause[j].col = "level"
                /\ query.whereClause[j].op = op } }

Expected(list) ==
  IF list = <<>> THEN {} ELSE {[i \in DOMAIN list |-> ToUpper(list[i])]}

\* C29: a filter naming, in level, exclude_level, levels or exclude_levels, a
\* text that is none of the five levels in any letter case is rejected;
\* otherwise the predicate is compiled with every one of them in upper case.
C29_LevelsChecked ==
  query.op = "query" =>
    /\ (\E text \in NamedLevels(query.filter) : ~IsLevel(text)) => query.status = 400
    /\ query.status = 200 =>
         /\ LevelArgs("=") = Expected(IF query.filter.Level = <<>> THEN <<>>
                                      ELSE <<query.filter.Level>>)
         /\ LevelArgs("IN") = Expected(query.filter.Levels)
         /\ LevelArgs("!=") = Expected(IF query.filter.ExcludeLevel = <<>> THEN <<>>
                                       ELSE <<query.filter.ExcludeLevel>>)
         /\ LevelArgs("NOT IN") = Expected(query.filter.ExcludeLevels)

C29_Witness ==
  /\ query.op = "query"
  /\ query.status = 200
  /\ query.filter.Levels = <<<<"e","r","r","o","r">>, <<"w","a","r","n">>>>
  /\ query.filter.ExcludeLevel = <<"I","n","f","o">>
  /\ LevelArgs("IN") = {<<ERROR, WARN>>}
  /\ LevelArgs("!=") = {<<INFO>>}

\* The start the relative windows of a filter give: last_days if positive,
\* otherwise last_hours, otherwise last_minutes.
RelativeStart(f) ==
  IF f.LastDays > 0 THEN Ago(f.LastDays, Day)
  ELSE IF f.LastHours > 0 THEN Ago(f.LastHours, Hour)
  ELSE Ago(f.LastMinutes, Minute)

HasWindow(f) == f.LastMinutes > 0 \/ f.LastHours > 0 \/ f.LastDays > 0

\* C30: when one or more of last_minutes, last_hours, last_days is positive,
\* the start of the compiled predicate is the one computed from last_days if
\* positive, otherwise from last_hours, otherwise from last_minutes, whatever
\* start_time the request gave; it is also the start compared with end_time.
C30_LastEvaluatedWins ==
  (query.op = "query" /\ HasWindow(query.filter)) =>
    /\ query.status = 200 => CompiledBounds(">=") = {RelativeStart(query.filter)}
    /\ ( /\ query.filter.EndTime # NoTime
         /\ RelativeStart(query.filter) > query.filter.EndTime ) => query.status = 400
    /\ ( /\ query.filter \in TimeFilters
         /\ query.status = 400 ) =>
         /\ query.filter.EndTime # NoTime
         /\ RelativeStart(query.filter) > query.filter.EndTime

C30_Witness ==
  /\ query.op = "query"
  /\ query.status = 200
  /\ query.filter.StartTime = Now - 10
  /\ query.filter.LastMinutes = 5
  /\ query.filter.LastHours = 2
  /\ query.filter.LastDays = 1
  /\ CompiledBounds(">=") = {Now - 1440}

\* The filter without its paging and sorting fields.
Unpaged(f) ==
  [f EXCEPT !.Limit = 0, !.Offset = 0, !.SortBy = <<>>, !.SortOrder = <<>>]

\* The rows QueryLogs reads for the tenant and the filter, all pages together.
ReadSet(userID, f) ==
  LET sql == ToSQL(QueryRequest_Validate(f), userID)
  IN  { dbLogs[i] : i \in Matching(sql.whereClause, sql.args) }

Rows(table) == { table[i] : i \in DOMAIN table }

PendingOf(c) == { e.id : e \in { p \in pel : p.consumer = c } }

Persists(c, m) ==
  /\ cpc[c] = "proc"
  /\ cbatch[c] # <<>>
  /\ Head(cbatch[c]) = m
  /\ ~Persisted(m)
  /\ Persisted(m)'

\* C33: when the context is cancelled while a delivered batch is being
\* processed, each message of the batch that the handler persists from then
\* on is acknowledged, and the process does not end while messages of the
\* batch are still to be passed to the handler.
C33_BatchFinishedOnCancel ==
  [][ \A c \in Consumers :
        /\ \A m \in 1..Len(stream) : (cancelled[c] /\ Persists(c, m)) => m \in acked'
        /\ (cpc[c] # "exited" /\ cpc'[c] = "exited") => cbatch[c] = <<>> ]_vars

PendingIds == { e.id : e \in pel }

\* C34: a message whose handler returned an error is not acknowledged, and
\* every appended well-formed message is not yet delivered, or in the pending
\* list, or acknowledged and persisted: none has left the pending list
\* without having been persisted.
C34_FailedStaysPending ==
  \A m \in 1..Len(stream) :
    WellFormed(stream[m]) =>
      /\ \/ m > lastDelivered
         \/ m \in PendingIds
         \/ m \in acked /\ Persisted(m)
      /\ ~(m \in PendingIds /\ m \in acked)
      /\ (m \in handlerFailed /\ ~Persisted(m)) => (m \in PendingIds /\ m \notin acked)

C34_Witness ==
  \E m \in 1..Len(stream), c \in Consumers :
    /\ WellFormed(stream[m])
    /\ m \in handlerFailed
    /\ handlerCalls[m] = 1
    /\ [id |-> m, consumer |-> c] \in pel
    /\ m \notin acked
    /\ ~Persisted(m)
    /\ cpc[c] = "blocked"

\* Consumer c runs processMessage for message m in this step.
Processes(c, m) ==
  /\ cpc[c] = "proc"
  /\ cbatch[c] # <<>>
  /\ Head(cbatch[c]) = m
  /\ cbatch'[c] = Tail(cbatch[c])
  /\ cpc'[c] # "exited"

\* C35: processMessage acknowledges a message without a string field log, or
\* with a payload that is no LogEntry, at once (Redis answering) and without
\* calling the handler; such a message is never persisted and never delivered
\* again.
C35_PoisonDropped ==
  [][ /\ \A c \in Consumers : \A m \in 1..Len(stream) :
           (Processes(c, m) /\ ~WellFormed(stream[m]) /\ failBudget = 0) =>
             /\ m \in acked'
             /\ m \notin PendingIds'
             /\ handlerCalls' = handlerCalls
             /\ dbLogs' = dbLogs
      /\ \A m \in 1..Len(stream) :
           ~WellFormed(stream[m]) =>
             /\ ~Persisted(m)'
             /\ handlerCalls'[m] = 0
             /\ (m <= lastDelivered /\ m \notin PendingIds) => m \notin PendingIds'
             /\ \A c \in Consumers :
                  (m <= lastDelivered /\ m \notin InHand(c)) => m \notin InHand(c)' ]_vars

\* C36: a handler error, a poison message, a failed acknowledgement or a
\* failed read does not stop the consumer.  processMessage, whatever its
\* outcome, leaves the rest of the batch to be processed; a consumer at work
\* on a batch or waiting after a read comes back to the top of the loop
\* (unless the process ends); ConsumeLogStream returns only from the top of
\* the loop with the context cancelled, or when the group cannot be created.
C36_LoopGoesOn ==
  /\ \A c \in Consumers :
       [](cpc[c] \in {"proc", "blocked", "sleep"} => <>(cpc[c] \in {"loop", "exited"}))
  /\ [][ \A c \in Consumers :
           /\ \A m \in 1..Len(stream) :
                Processes(c, m) =>
                  cpc'[c] = IF Tail(cbatch[c]) = <<>> THEN "loop" ELSE "proc"
           /\ cpc[c] \in {"blocked", "sleep"} => cpc'[c] \in {cpc[c], "loop", "exited"}
           /\ (cpc[c] # "returned_ctx" /\ cpc'[c] = "returned_ctx") =>
                (cpc[c] = "loop" /\ cancelled[c])
           /\ (cpc[c] # "returned_err" /\ cpc'[c] = "returned_err") => cpc[c] = "init"
           /\ (cpc[c] # "exited" /\ cpc'[c] = "exited") => cancelled[c] ]_vars

C36_Witness ==
  \E c \in Consumers :
    /\ ~cancelled[c]
    /\ cpc[c] = "sleep"
    /\ Len(stream) = 2
    /\ ~WellFormed(stream[1])
    /\ 1 \in acked
    /\ lastDelivered = 1
    /\ \A d \in Consumers \ {c} : cpc[d] = "init"

\* Consumer c leaves the head of ConsumeLogStream in this step.
Starts(c) == cpc[c] = "init" /\ cpc'[c] \in {"loop", "returned_err"}

\* C37: creating the group when it exists changes nothing: the consumer goes
\* on to the loop and the group's position, pending list and acknowledgements
\* are as before, so any number of starts leave the group as the first one
\* made it; a creation error other than BUSYGROUP makes ConsumeLogStream
\* return an error, and it never reads.
C37_GroupCreateIdempotent ==
  [][ \A c \in Consumers :
        /\ Starts(c) =>
             /\ pel' = pel /\ acked' = acked
             /\ groupCreated =>
                  /\ groupCreated'
                  /\ lastDelivered' = lastDelivered
                  /\ (~cancelled[c] /\ failBudget = 0) => cpc'[c] = "loop"
             /\ ~groupCreated =>
                  /\ groupCreated' = (cpc'[c] = "loop")
                  /\ lastDelivered' = 0
             /\ cpc'[c] = "returned_err" => (cancelled[c] \/ failBudget' < failBudget)
        /\ cpc[c] = "returned_err" =>
             /\ cpc'[c] = "returned_err"
             /\ PendingOf(c)' \subseteq PendingOf(c) ]_vars

C37_Witness ==
  /\ \A c \in Consumers : cpc[c] = "loop" /\ ~cancelled[c]
  /\ pel # {}
  /\ lastDelivered = Len(stream)
  /\ acked # {}
  /\ groupCreated

\* C38: InsertLogs persists a batch in one transaction.  While the
\* transaction is open and after a request that failed (an insert, the commit
\* or the begin) or was rejected, no record of the batch is in the table;
\* after a request answered 201 every record of the batch is, once, in the
\* order of the batch.
C38_BatchInOneTransaction ==
  http.op = "sync" =>
    /\ http.status # 201 => dbLogs = http.before
    /\ http.status = 201 =>
         /\ dbLogs = http.before \o
                       [i \in 1..Len(http.items) |->
                          [mid |-> 0, log |-> StampedEntry(http.user, http.items[i])]]
         /\ http.created = Len(http.items)

C38_Witness ==
  /\ http.op = "sync"
  /\ http.status = 500
  /\ Len(http.items) = 2
  /\ Len(http.before) = 1
  /\ dbLogs = http.before
  /\ failBudget = 0

\* The validations admitted on an API key: by the cache hit or by the storage
\* lookup of the key-only and of the either-scheme middleware.
KeyAdmitted(rq) ==
  /\ rq.kind = "validate"
  /\ rq.status = 200
  /\ rq.header.token.kind = "key"

\* C39: whenever the validation of an API key succeeds, by cache hit or by
\* storage lookup, the user_id set in the request context is the tenant the
\* key is bound to in api_keys; and in every reachable state an entry of the
\* cache, and every cache write still to be made, maps a key to its owner.
C39_TenantIsKeyOwner ==
  /\ \A k \in Keys : cache[k] \in {NoUser, keyOwner[k]}
  /\ \A g \in goroutines :
       g.op = "cache" => g.key \in Keys /\ g.user = keyOwner[g.key]
  /\ \A r \in ReqIds :
       KeyAdmitted(reqs[r]) =>
         /\ reqs[r].header.token.key \in Keys
         /\ reqs[r].user_id = keyOwner[reqs[r].header.token.key]

\* The key k2 of tenant 2 admitted once by the storage lookup and, with its
\* entry cached, once by the cache hit, while k1 of tenant 1 is not cached.
C39_Witness ==
  /\ cache["k2"] = 2
  /\ cache["k1"] = NoUser
  /\ \E r, q \in ReqIds :
       /\ KeyAdmitted(reqs[r]) /\ KeyAdmitted(reqs[q])
       /\ reqs[r].header.token.key = "k2" /\ reqs[q].header.token.key = "k2"
       /\ reqs[r].steps = <<"cache", "db">>
       /\ reqs[q].steps = <<"token", "cache">>
       /\ reqs[r].user_id = 2 /\ reqs[q].user_id = 2

\* A validation that comes in with this step and gets as far as the cache.
LooksUp(r) ==
  /\ reqs[r].kind = "free"
  /\ reqs'[r].kind = "validate"
  /\ ReachesCache(reqs'[r].mw, reqs'[r].header)

\* The lookup of the step was a hit: Redis answered and holds an entry.
Hit(r) ==
  /\ failBudget' = failBudget
  /\ reqs'[r].header.token.key \in Keys
  /\ cache[reqs'[r].header.token.key] # NoUser

\* The key is one of an active user's active keys in storage.
ValidInStorage(key) ==
  key \in Keys /\ keyActive[key] /\ userActive[keyOwner[key]]

\* C40: a cache lookup that is not a hit, because there is no entry or
\* because Redis does not answer, sends the validation to the storage
\* lookup without answering the request; the storage lookup alone then
\* decides (a valid active key is admitted, also while the cache is down);
\* and a cache write, failed or not, leaves the request it came from
\* admitted as it was.
C40_CacheFailureFallsThrough ==
  [][
      /\ \A r \in ReqIds :
          LooksUp(r) =>
            IF Hit(r)
              THEN reqs'[r].status = 200
              ELSE reqs'[r].pc = "db" /\ reqs'[r].status = 0
      /\ \A r \in ReqIds :
          (reqs[r].kind = "validate" /\ reqs[r].pc = "db" /\ reqs'[r].pc = "done") =>
            reqs'[r].status =
              IF ValidInStorage(reqs[r].header.token.key) THEN 200 ELSE 401
      /\ \A g \in goroutines \ goroutines' :
          g.op = "cache" => reqs' = reqs /\ reqs[g.req].status = 200
    ]_vars

\* One request only, on the key-only route with the active key k1 of an
\* active user: its cache lookup failed, the storage lookup admitted it, and
\* its cache write failed too.
C40_Witness ==
  /\ failBudget < MaxFail
  /\ reqs[2].kind = "free"
  /\ KeyAdmitted(reqs[1])
  /\ reqs[1].header.token.key = "k1"
  /\ reqs[1].steps = <<"cache", "db">>
  /\ reqs[1].user_id = 1
  /\ goroutines = {}
  /\ cache["k1"] = NoUser

Compiled == query.op = "query" /\ query.status = 200

\* The placeholder numbers of a predicate, in the order of the text.
RECURSIVE Placeholders(_, _)
Placeholders(whereClause, k) ==
  IF k = 0 THEN <<>> ELSE Placeholders(whereClause, k - 1) \o whereClause[k].ph

\* The conditions ToSQL can write: fixed column names and operators.
ConditionForms ==
  { <<"user_id", "=">>, <<"level", "=">>, <<"source", "=">>, <<"service", "=">>,
    <<"level", "IN">>, <<"source", "IN">>, <<"service", "IN">>,
    <<"level", "!=">>, <<"level", "NOT IN">>, <<"source", "!=">>, <<"source", "NOT IN">>,
    <<"message", "ILIKE">>, <<"message", "NOT ILIKE">>,
    <<"timestamp", ">=">>, <<"timestamp", "<=">> }

\* What the handler's request binds to the condition on col with operator op.
BoundValues(req, userID, col, op) ==
  CASE col = "user_id" -> <<userID>>
    [] col = "level" /\ op = "=" -> <<req.Level>>
    [] col = "source" /\ op = "=" -> <<req.Source>>
    [] col = "service" /\ op = "=" -> <<req.Service>>
    [] col = "level" /\ op = "IN" -> req.Levels
    [] col = "source" /\ op = "IN" -> req.Sources
    [] col = "service" /\ op = "IN" -> req.Services
    [] col = "level" /\ op = "!=" -> <<req.ExcludeLevel>>
    [] col = "level" /\ op = "NOT IN" -> req.ExcludeLevels
    [] col = "source" /\ op = "!=" -> <<req.ExcludeSource>>
    [] col = "source" /\ op = "NOT IN" -> req.ExcludeSources
    [] col = "message" /\ op = "ILIKE" -> <<LikePattern(req.MessageContains)>>
    [] col = "message" /\ op = "NOT ILIKE" -> <<LikePattern(req.MessageNotContains)>>
    [] col = "timestamp" /\ op = ">=" -> <<req.StartTime>>
    [] col = "timestamp" /\ op = "<=" -> <<req.EndTime>>

\* C11: the predicate ToSQL produces holds only fixed columns, operators and
\* placeholders; the placeholders are $1..$n in increasing order, each used
\* once, n is the length of the argument list, and the argument at i is the
\* value of the condition that uses $i.
C11_PlaceholdersMatchArgs ==
  Compiled =>
    LET w == query.whereClause
        req == QueryRequest_Validate(query.filter)
    IN  /\ \A k \in DOMAIN w : <<w[k].col, w[k].op>> \in ConditionForms
        /\ Placeholders(w, Len(w)) = [i \in 1..Len(query.args) |-> i]
        /\ \A k \in DOMAIN w :
             LET vals == BoundValues(req, query.user, w[k].col, w[k].op)
             IN  /\ Len(vals) = Len(w[k].ph)
                 /\ \A i \in DOMAIN vals : query.args[w[k].ph[i]] = vals[i]

C11_Witness ==
  /\ Compiled
  /\ Len(query.whereClause) >= 3
  /\ \E k \in DOMAIN query.whereClause : Len(query.whereClause[k].ph) >= 2
  /\ \E k \in DOMAIN query.whereClause :
       query.whereClause[k].op = "ILIKE" /\ k > 2 /\ query.whereClause[k].ph[1] >= 4

\* C12: the first condition of the predicate is user_id = $1 and the first
\* argument is the tenant id of the request, whatever the filter holds.
C12_TenantFirst ==
  Compiled =>
    /\ query.whereClause[1] = [col |-> "user_id", op |-> "=", ph |-> <<1>>]
    /\ query.args[1] = query.user
    /\ \A k \in DOMAIN query.whereClause : k > 1 => query.whereClause[k].col # "user_id"

C12_Witness ==
  /\ Compiled
  /\ Len(query.whereClause) >= 3
  /\ query.user = 2
  /\ query.whereClause[1].col = "user_id"

Validations == {r \in ReqIds : reqs[r].kind = "validate"}

Deletions == {r \in ReqIds : reqs[r].kind = "delete"}

Finished(r) == reqs[r].kind # "free" /\ reqs[r].pc = "done"

\* C21: a storage lookup for a key that is unknown, inactive, or owned by an
\* inactive user ends in a rejection, and starts no write of a cache entry;
\* a cache entry is only ever written for a request that was admitted.
C21_RejectedNotCached ==
  [][/\ \A r \in Validations :
          (reqs[r].pc = "db" /\ reqs'[r].pc = "done" /\ ~ValidKey(reqs[r].header.token)) =>
            /\ reqs'[r].status = 401
            /\ goroutines' = goroutines
            /\ cache' = cache
     /\ \A k \in Keys :
          (cache'[k] # cache[k] /\ cache'[k] # NoUser) =>
            \E g \in goroutines :
              g.op = "cache" /\ g.key = k /\ reqs[g.req].status = 200]_vars

C21_Witness ==
  \E r, q \in Validations :
    /\ r # q
    /\ reqs[r].status = 401 /\ reqs[q].status = 401
    /\ reqs[r].steps = <<"cache", "db">>
    /\ reqs[q].steps = <<"cache", "db">>
    /\ reqs[r].header.token.key \in Keys
    /\ ~keyActive[reqs[r].header.token.key]
    /\ reqs[q].header.token.key \in Keys
    /\ keyActive[reqs[q].header.token.key]
    /\ ~userActive[keyOwner[reqs[q].header.token.key]]
    /\ \A k \in Keys : cache[k] = NoUser

\* The deletions that name a key of another tenant.
Unowned(rq) == rq.kind = "delete" /\ keyOwner[rq.key] # rq.user

\* C22: a DeleteAPIKey request that names a key of another tenant starts no
\* invalidation of the cache, leaves the key active and the cache as they
\* are, and is answered with a not-found or ownership error (404 or 409).
C22_CrossTenantDelete ==
  [][\A r \in ReqIds :
       (Unowned(reqs'[r]) /\ reqs'[r] # reqs[r]) =>
         /\ keyActive' = keyActive
         /\ cache' = cache
         /\ goroutines' = goroutines
         /\ reqs'[r].pc = "done" => reqs'[r].status \in {404, 409}]_vars

\* C1: a validation of a key that starts after DeleteAPIKey has answered 200
\* for that key is rejected.
C1_RejectedAfterDelete ==
  \A r \in Validations :
    (reqs[r].afterDelete /\ Finished(r)) => reqs[r].status = 401

\* C8: when DeleteAPIKey sends its success response the cache no longer maps
\* the key to a tenant.
C8_InvalidatedBeforeResponse ==
  \A r \in Deletions : reqs[r].status = 200 => reqs[r].cachedAtResponse = NoUser

\* C9: successful validations of one active key, one after another and
\* within the TTL, cause at most one storage lookup.
C9_AtMostOneLookup ==
  ( /\ ~overlap
    /\ ~ttlExpired
    /\ Deletions = {}
    /\ \A r \in Validations : Finished(r) => reqs[r].status = 200 )
  => \A k \in Keys : dbLookups[k] <= 1

\* C10: two requests rejected by authentication get the same answer: 401
\* with the same message.
C10_UniformRejection ==
  \A r, q \in Validations :
    (Finished(r) /\ Finished(q) /\ reqs[r].status # 200 /\ reqs[q].status # 200)
      => (reqs[r].status = 401 /\ reqs[q].status = 401 /\ reqs[r].error = reqs[q].error)

====
